---------------------------- MODULE Spec2Model ----------------------------
(***************************************************************************)
(* TerraWatch: the alert lifecycle (backend/app/services/alert_service.py), *)
(* its broadcast fan-out, the earthquake de-duplication set                 *)
(* (backend/app/data/ingestion/earthquake_fetcher.py), the TTL cache        *)
(* (backend/app/services/cache_service.py) with the report services that    *)
(* read through it, the composite score and the hazard models               *)
(* (backend/app/models).                                                    *)
(*                                                                          *)
(* Time is counted in whole days.  The service stores created_at and        *)
(* expires_at as datetime.isoformat() strings of timezone-aware UTC         *)
(* datetimes and compares them as strings; for such strings the             *)
(* lexicographic order is the chronological order ('+' sorts before '.',    *)
(* so a value without a fractional part sorts before one with it), which    *)
(* is why IsoLess is the order of the clock values.                         *)
(*                                                                          *)
(* An alert id is the string "alert-%06d" of the counter value; the model   *)
(* names an id by that counter value (the formatting is injective).         *)
(***************************************************************************)
EXTENDS Integers, Sequences, FiniteSets, TLC

(* ------------------------------ bounds --------------------------------- *)
\* MaxHistory stands for max_history (500 by default), SeenLimit and SeenKeep
\* for the 1000 and 500 of _check_alert: the model keeps SeenKeep < SeenLimit
\* and MaxHistory < MaxAlerts so that eviction and trimming happen.
MaxTime == 2
MaxAlerts == 3
MaxHistory == 2
MaxBroadcasts == 2
MaxEvents == 4
MaxQuakeAlerts == 2
SeenLimit == 3
SeenKeep == 2
\* MaxSize stands for maxsize and CacheTtl for ttl of CacheService (500 entries
\* and 1800 or 3600 seconds in the singletons); MaxClock bounds the timer and
\* MaxGets the number of get calls
MaxSize == 2
CacheTtl == 1
MaxClock == 2
MaxGets == 3
\* MaxFeed bounds the events of one upstream response, MaxCalls the calls of
\* fetch_recent and of the weather service.
MaxFeed == 2
MaxCalls == 3
\* MaxConns bounds the WebSocket clients.
MaxConns == 3
\* RequestsPerMinute stands for requests_per_minute (100 in the settings) and
\* Window for the 60 seconds of the rate limiter; MaxT bounds time.time() and
\* MaxRequests the requests that are passed on to the application.
RequestsPerMinute == 2
Window == 2
MaxT == 3
MaxRequests == 4

VARIABLES
    now,            \* datetime.now(timezone.utc), in days
    alert_counter,  \* AlertService._alert_counter
    alertObj,       \* the alert dicts, by id (shared by _alerts and _active_alerts)
    alerts,         \* AlertService._alerts: deque(maxlen=max_history), newest first
    active_alerts,  \* keys of AlertService._active_alerts
    subscribers,    \* AlertService._subscribers
    tasks,          \* the _broadcast coroutines scheduled by ensure_future, by alert id
    seen_events,    \* EarthquakeFetcher._seen_events
    seen_order,     \* ghost: what _seen_events held when the last identifier had been
                    \* added (before a trim), oldest insertion first
    last,           \* ghost: the last call, its argument and what it returned
    clock,          \* time.monotonic(), the timer of TTLCache
    cache_data,     \* CacheService._cache: key -> value, expiry time (and, as a
                    \* ghost, the time of the set)
    cache_links,    \* the keys of _cache in the order of TTLCache's __links
                    \* (an OrderedDict): least recently set or read first
    hits,           \* CacheService._hits
    misses,         \* CacheService._misses
    cache_last,     \* ghost: the last cache call, its arguments and its result
    risk_cache,     \* DisasterService._cache, the CacheService of get_risk_cache()
    soil_cache,     \* SoilService._cache, the CacheService of get_soil_cache()
    report_last,    \* ghost: the last report call, its arguments and its result
    fn_args,        \* the arguments of a call of one of the pure functions
    fn_result,      \* what that call returned (None before the call)
    fn_previous,    \* what the call before it, with the same arguments, returned
    month,          \* datetime.datetime.now().month
    flow_pc,        \* where each flow is: the polling task and a request
    flow_call,      \* the upstream-backed call each flow is in (operation, cache key)
    wake_at,        \* when the polling task's asyncio.sleep ends
    loop,           \* the for loop of fetch_recent that is running, or None
    eq_cache,       \* EarthquakeFetcher._cache
    weather_cache,  \* WeatherService._cache, the CacheService of get_weather_cache()
    fetch_last,     \* ghost: the last return of an upstream-backed call
    lifespan,       \* where the lifespan context manager of main.py is
    cancel_requested, \* Task.cancel() was called on _bg_task and not yet delivered
    alerted,        \* ghost: the alerts created so far for each event_id
    connections,    \* websocket._connections
    ws_bcast,       \* the broadcast_alert that is suspended in a send, or None
    ws_received,    \* ghost: the alert messages of the last broadcast each client got
    ws_done,        \* ghost: how the last broadcast_alert ended, or None
    rl_now,         \* time.time()
    rl_clients,     \* RateLimitMiddleware._clients: client_ip -> list of times
    rl_inflight,    \* the requests of each client that are inside call_next
    rl_passed,      \* ghost: the times of all requests passed on, by client
    rl_last         \* ghost: the last response of dispatch

\* the state of the alert service and of the earthquake fetcher
alertVars == <<now, alert_counter, alertObj, alerts, active_alerts, subscribers,
               tasks, seen_events, seen_order, last>>

\* the state of a CacheService
cacheVars == <<clock, cache_data, cache_links, hits, misses, cache_last>>

\* the state of the report services
reportVars == <<risk_cache, soil_cache, report_last>>

\* a call of a function of the scoring engine
fnVars == <<fn_args, fn_result, fn_previous, month>>

\* the state of the upstream-backed calls, of the polling task and of lifespan
fetchVars == <<flow_pc, flow_call, wake_at, loop, eq_cache, weather_cache,
               fetch_last, lifespan, cancel_requested, alerted>>

\* the state of the WebSocket route
wsVars == <<connections, ws_bcast, ws_received, ws_done>>

\* the state of the rate-limit middleware
rlVars == <<rl_now, rl_clients, rl_inflight, rl_passed, rl_last>>

\* what no operation of the alert service or of the earthquake fetcher touches
outsideAlerts == <<cacheVars, reportVars, fnVars, fetchVars, wsVars, rlVars>>

\* what no operation of a CacheService touches
outsideCache == <<alertVars, reportVars, fnVars, fetchVars, wsVars, rlVars>>

\* what no operation of the report services touches
outsideReports ==
    <<alertVars, cache_data, cache_links, hits, misses, cache_last, fnVars,
      fetchVars, wsVars, rlVars>>

\* what no function of the scoring engine touches
outsideFns ==
    <<alertVars, cacheVars, reportVars, fn_previous, month, fetchVars, wsVars, rlVars>>

vars == <<now, alert_counter, alertObj, alerts, active_alerts, subscribers,
          tasks, seen_events, seen_order, last,
          clock, cache_data, cache_links, hits, misses, cache_last,
          risk_cache, soil_cache, report_last, fn_args, fn_result, fn_previous,
          month, flow_pc, flow_call, wake_at, loop, eq_cache, weather_cache,
          fetch_last, lifespan, cancel_requested, alerted,
          connections, ws_bcast, ws_received, ws_done,
          rl_now, rl_clients, rl_inflight, rl_passed, rl_last>>

Severities == {"critical", "warning", "watch", "advisory"}
\* ttl_hours of create_alert, in days: the default of 24 hours
TTLs == {1}
\* ttl_hours=48 of _check_alert, in days
TtlQuake == 2
\* the callables handed to subscribe()
Subscribers == {"cb_a", "cb_b"}
EventIds == 1..MaxEvents
\* the WebSocket objects, named by the place of their hash in the table of
\* the set _connections: a set is iterated in that order
WsIds == 1..MaxConns
\* request.client.host of the requests
ClientIps == {"10.0.0.1", "10.0.0.2"}
NoResponse == [client_ip |-> "none", status_code |-> 0, remaining |-> 0]
\* magnitudes in tenths: each threshold of _check_alert and the value just below it
Magnitudes == {39, 40, 49, 50, 59, 60, 69, 70}
\* alert ids a client may ask to dismiss: 0 is never issued
DismissIds == 0..MaxAlerts

Min(a, b) == IF a < b THEN a ELSE b

Max(a, b) == IF a < b THEN b ELSE a

Range(s) == {s[i] : i \in 1..Len(s)}

\* the position of key k in the order l
Pos(l, k) == CHOOSE i \in 1..Len(l) : l[i] = k

NoCall ==
    [op |-> "none", id |-> 0, ok |-> FALSE, ids |-> <<>>, total |-> 0,
     nactive |-> 0, outcome |-> "none"]

\* Python's None and a Python str, as cached values
None == [py |-> "None"]
Str(x) == [py |-> "str", s |-> x]

\* the keys and the values handed to CacheService
CacheKeys == {"k1", "k2", "k3"}
CacheValues == {Str("v1"), None}

NoCacheCall ==
    [op |-> "none", key |-> "", value |-> None, evicted |-> {}, size |-> 0,
     hit_rate |-> 0]

\* a mapping restricted to some of its keys
Restrict(f, S) == [k \in S |-> f[k]]

\* TTLCache(maxsize, ttl) as constructed: no entry
NoEntries == Restrict(<<>>, {})

\* CacheService(maxsize, ttl) as constructed
NewCache == [data |-> NoEntries, links |-> <<>>, hits |-> 0, misses |-> 0]

NoReport == [op |-> "none", args |-> <<>>, report |-> None, cached |-> FALSE]

\* a Python list
List(items) == [py |-> "list", items |-> items]

\* the flows that make upstream-backed calls: the task of
\* periodic_earthquake_fetch and a request handler
Flows == {"poller", "request"}

\* periodic_earthquake_fetch calls fetch_recent(days=1, min_magnitude=4.0, limit=50)
PollerCall == [op |-> "fetch_recent", key |-> "eq_1_4.0_50"]

NoFetch ==
    [flow |-> "none", call |-> PollerCall, outcome |-> "none", result |-> None,
     raised |-> FALSE]

(* ------------------------- AlertService helpers ------------------------ *)

\* mutant: the comparison with its operands exchanged
IsoLessSwapped(a, b) == b < a

\* alert.get("expires_at", "") < now : comparison of two isoformat strings
IsoLess(a, b) == a < b

\* mutant: the counter is not incremented
NoIncrement(c) == c

\* self._alert_counter += 1
NextCounter(c) == c + 1

\* mutant: deque.append(x): x goes to the right end, when full the leftmost is dropped
AppendRight(q, x) ==
    LET full == q \o <<x>>
    IN  SubSeq(full, Len(full) - Min(Len(full), MaxHistory) + 1, Len(full))

\* deque(maxlen=max_history).appendleft(x): when full, the rightmost is dropped
AppendLeft(q, x) ==
    LET full == <<x>> \o q
    IN  SubSeq(full, 1, Min(Len(full), MaxHistory))

\* the dict built in create_alert
NewAlert(sev, ttl) ==
    [created_at |-> now, expires_at |-> now + ttl, is_active |-> TRUE,
     severity |-> sev]

\* mutant: the comprehension without its condition
ExpiredAll == active_alerts

\* the list `expired` of _expire_alerts
Expired ==
    {aid \in active_alerts : IsoLess(alertObj[aid].expires_at, now)}

\* _expire_alerts: the alert dicts and the active index after the pass
ExpiredObj ==
    [aid \in DOMAIN alertObj |->
        IF aid \in Expired THEN [alertObj[aid] EXCEPT !.is_active = FALSE]
        ELSE alertObj[aid]]

ExpiredActive == active_alerts \ Expired

severity_order(s) ==
    CASE s = "critical" -> 0
      [] s = "warning"  -> 1
      [] s = "watch"    -> 2
      [] s = "advisory" -> 3
      [] OTHER          -> 4

\* alerts.sort(key=(severity_order, created_at)); the sort is stable and the
\* dict iterates in insertion order, which is the order of the ids
SortsBefore(a, b) ==
    LET ka == severity_order(alertObj[a].severity)
        kb == severity_order(alertObj[b].severity)
    IN  \/ ka < kb
        \/ ka = kb /\ alertObj[a].created_at < alertObj[b].created_at
        \/ ka = kb /\ alertObj[a].created_at = alertObj[b].created_at /\ a < b

RECURSIVE SortAlerts(_)
SortAlerts(S) ==
    IF S = {} THEN <<>>
    ELSE LET m == CHOOSE x \in S : \A y \in S \ {x} : SortsBefore(x, y)
         IN  <<m>> \o SortAlerts(S \ {m})

Take(s, n) == SubSeq(s, 1, Min(Len(s), n))

(* ------------------------------- Init ---------------------------------- *)
\* the services as constructed
InitServices ==
    /\ now = 0
    /\ alert_counter = 0
    /\ alertObj = <<>>
    /\ alerts = <<>>
    /\ active_alerts = {}
    /\ subscribers = {}
    /\ tasks = <<>>
    /\ seen_events = {}
    /\ seen_order = <<>>
    /\ last = NoCall
    /\ clock = 0
    /\ cache_data = NoEntries
    /\ cache_links = <<>>
    /\ hits = 0
    /\ misses = 0
    /\ cache_last = NoCacheCall
    /\ risk_cache = NewCache
    /\ soil_cache = NewCache
    /\ report_last = NoReport
    /\ flow_pc = [f \in Flows |-> IF f = "poller" THEN "created" ELSE "idle"]
    /\ flow_call = [f \in Flows |-> PollerCall]
    /\ wake_at = 0
    /\ loop = None
    /\ eq_cache = NewCache
    /\ weather_cache = NewCache
    /\ fetch_last = NoFetch
    /\ lifespan = "serving"
    /\ cancel_requested = FALSE
    /\ alerted = [e \in EventIds |-> 0]
    /\ connections = {}
    /\ ws_bcast = None
    /\ ws_received = [ws \in WsIds |-> 0]
    /\ ws_done = None
    /\ rl_now = 0
    /\ rl_clients = [ip \in ClientIps |-> <<>>]
    /\ rl_inflight = [ip \in ClientIps |-> 0]
    /\ rl_passed = [ip \in ClientIps |-> <<>>]
    /\ rl_last = NoResponse

Init ==
    /\ InitServices
    /\ fn_args = None
    /\ fn_result = None
    /\ fn_previous = None
    /\ month = 1

(* --------------------------- AlertService ------------------------------ *)

\* create_alert, without the bookkeeping of `last`
CreateAlertEffect(sev, ttl) ==
    LET c == NextCounter(alert_counter)
    IN  /\ alert_counter' = c
        /\ alertObj' = [aid \in DOMAIN alertObj \cup {c} |->
                           IF aid = c THEN NewAlert(sev, ttl) ELSE alertObj[aid]]
        /\ alerts' = AppendLeft(alerts, c)
        /\ active_alerts' = active_alerts \cup {c}
        \* asyncio.ensure_future(self._broadcast(alert))
        /\ tasks' = [b \in DOMAIN tasks \cup {c} |->
                        IF b = c
                        THEN [status |-> "pending", snapshot |-> {}, todo |-> {},
                              invoked |-> {}, raised |-> {}]
                        ELSE tasks[b]]

CreateAlert(sev, ttl) ==
    /\ alert_counter < MaxAlerts
    /\ CreateAlertEffect(sev, ttl)
    /\ last' = [NoCall EXCEPT !.op = "create_alert", !.id = NextCounter(alert_counter),
                              !.ok = TRUE]
    /\ UNCHANGED outsideAlerts
    /\ UNCHANGED <<now, subscribers, seen_events, seen_order>>

\* mutant: the id is looked up among all alerts ever created
IsKnownId(aid) == aid \in DOMAIN alertObj

\* `alert_id in self._active_alerts`
IsActiveId(aid) == aid \in active_alerts

DismissAlert(aid) ==
    /\ IF IsActiveId(aid)
       THEN /\ alertObj' = [alertObj EXCEPT ![aid].is_active = FALSE]
            /\ active_alerts' = active_alerts \ {aid}
            /\ last' = [NoCall EXCEPT !.op = "dismiss_alert", !.id = aid, !.ok = TRUE]
       ELSE /\ UNCHANGED <<alertObj, active_alerts>>
            /\ last' = [NoCall EXCEPT !.op = "dismiss_alert", !.id = aid, !.ok = FALSE]
    /\ UNCHANGED outsideAlerts
    /\ UNCHANGED <<now, alert_counter, alerts, subscribers, tasks, seen_events,
                   seen_order>>

\* sev = "any" stands for severity=None
GetActiveAlerts(sev, limit) ==
    LET kept == {a \in ExpiredActive : sev = "any" \/ alertObj[a].severity = sev}
    IN  /\ alertObj' = ExpiredObj
        /\ active_alerts' = ExpiredActive
        /\ last' = [NoCall EXCEPT !.op = "get_active_alerts",
                                  !.ids = Take(SortAlerts(kept), limit)]
        /\ UNCHANGED outsideAlerts
        /\ UNCHANGED <<now, alert_counter, alerts, subscribers, tasks, seen_events,
                       seen_order>>

GetAlertHistory(limit) ==
    /\ last' = [NoCall EXCEPT !.op = "get_alert_history", !.ids = Take(alerts, limit)]
    /\ UNCHANGED outsideAlerts
    /\ UNCHANGED <<now, alert_counter, alertObj, alerts, active_alerts, subscribers,
                   tasks, seen_events, seen_order>>

Stats ==
    /\ alertObj' = ExpiredObj
    /\ active_alerts' = ExpiredActive
    /\ last' = [NoCall EXCEPT !.op = "stats", !.total = Len(alerts),
                              !.nactive = Cardinality(ExpiredActive)]
    /\ UNCHANGED outsideAlerts
    /\ UNCHANGED <<now, alert_counter, alerts, subscribers, tasks, seen_events,
                   seen_order>>

\* the wall clock advances
Tick ==
    /\ now < MaxTime
    /\ now' = now + 1
    /\ last' = [NoCall EXCEPT !.op = "tick"]
    /\ UNCHANGED outsideAlerts
    /\ UNCHANGED <<alert_counter, alertObj, alerts, active_alerts, subscribers, tasks,
                   seen_events, seen_order>>


(* ------------------------ subscription and fan-out --------------------- *)

Subscribe(cb) ==
    /\ subscribers' = subscribers \cup {cb}
    /\ last' = [NoCall EXCEPT !.op = "subscribe"]
    /\ UNCHANGED outsideAlerts
    /\ UNCHANGED <<now, alert_counter, alertObj, alerts, active_alerts, tasks,
                   seen_events, seen_order>>

Unsubscribe(cb) ==
    /\ subscribers' = subscribers \ {cb}
    /\ last' = [NoCall EXCEPT !.op = "unsubscribe"]
    /\ UNCHANGED outsideAlerts
    /\ UNCHANGED <<now, alert_counter, alertObj, alerts, active_alerts, tasks,
                   seen_events, seen_order>>

\* what `await callback(alert)` can do: return, raise an Exception, never return
Outcomes == {"ok", "raise", "hang"}

\* mutant: no try/except around the callback, an exception ends the coroutine
AfterCallbackAbort(t, cb, outcome) ==
    LET rest == t.todo \ {cb}
    IN  [t EXCEPT !.todo = rest,
                  !.invoked = t.invoked \cup {cb},
                  !.raised = IF outcome = "raise" THEN t.raised \cup {cb} ELSE t.raised,
                  !.status = IF rest = {} \/ outcome = "raise" THEN "done"
                             ELSE "running"]

\* _broadcast after callback cb of task t ended with `outcome` ("ok" or "raise"):
\* the except clause swallows the exception and the for loop goes on
AfterCallback(t, cb, outcome) ==
    LET rest == t.todo \ {cb}
    IN  [t EXCEPT !.todo = rest,
                  !.invoked = t.invoked \cup {cb},
                  !.raised = IF outcome = "raise" THEN t.raised \cup {cb} ELSE t.raised,
                  !.status = IF rest = {} THEN "done" ELSE "running"]

\* the subscription set after callback cb ended with `outcome`: the except
\* clause only logs a warning
SubscribersAfter(cb, outcome) == subscribers

\* the event loop runs a scheduled _broadcast up to its first await:
\* `for callback in list(self._subscribers)` takes its snapshot
BroadcastStart(b) ==
    /\ b \in DOMAIN tasks
    /\ tasks[b].status = "pending"
    \* call_soon is first in, first out: the tasks start in the order scheduled
    /\ \A o \in DOMAIN tasks : o < b => tasks[o].status # "pending"
    /\ tasks' = [tasks EXCEPT ![b] =
                    [status   |-> IF subscribers = {} THEN "done" ELSE "running",
                     snapshot |-> subscribers,
                     todo     |-> subscribers,
                     invoked  |-> {},
                     raised   |-> {}]]
    /\ last' = [NoCall EXCEPT !.op = "broadcast_start"]
    /\ UNCHANGED outsideAlerts
    /\ UNCHANGED <<now, alert_counter, alertObj, alerts, active_alerts, subscribers,
                   seen_events, seen_order>>

\* one iteration of the for loop of _broadcast; list(set) has no defined order,
\* so any callback still to do may be the next
BroadcastStep(b, cb, outcome) ==
    /\ b \in DOMAIN tasks
    /\ tasks[b].status = "running"
    /\ cb \in tasks[b].todo
    /\ IF outcome = "hang"
       THEN /\ tasks' = [tasks EXCEPT ![b].status = "hung",
                                      ![b].invoked = @ \cup {cb}]
            /\ UNCHANGED subscribers
       ELSE /\ tasks' = [tasks EXCEPT ![b] = AfterCallback(tasks[b], cb, outcome)]
            /\ subscribers' = SubscribersAfter(cb, outcome)
    /\ last' = [NoCall EXCEPT !.op = "callback"]
    /\ UNCHANGED outsideAlerts
    /\ UNCHANGED <<now, alert_counter, alertObj, alerts, active_alerts, seen_events,
                   seen_order>>

(* --------------------------- EarthquakeFetcher ------------------------- *)

\* mutant: the thresholds compared with > instead of >=
QuakeSeverityStrict(m) ==
    IF m > 70 THEN "critical"
    ELSE IF m > 60 THEN "warning"
    ELSE IF m > 50 THEN "watch"
    ELSE "advisory"

\* the severity ladder of _check_alert (magnitude in tenths)
QuakeSeverity(m) ==
    IF m >= 70 THEN "critical"
    ELSE IF m >= 60 THEN "warning"
    ELSE IF m >= 50 THEN "watch"
    ELSE "advisory"

\* set(list(self._seen_events)[-500:]): a set lists its members in hash order,
\* which is unrelated to the order of insertion, so the last SeenKeep members
\* of the list may be any SeenKeep members of the set
TrimmedSeen(seen) == {S \in SUBSET seen : Cardinality(S) = SeenKeep}

RECURSIVE FilterSeq(_, _)
FilterSeq(s, S) ==
    IF s = <<>> THEN <<>>
    ELSE IF Head(s) \in S THEN <<Head(s)>> \o FilterSeq(Tail(s), S)
    ELSE FilterSeq(Tail(s), S)

\* _check_alert(event), without what it leaves alone outside the two services
CheckAlertEffect(event_id, magnitude) ==
    IF event_id \in seen_events
    THEN /\ last' = [NoCall EXCEPT !.op = "check_alert", !.ok = FALSE]
         /\ UNCHANGED <<now, alert_counter, alertObj, alerts, active_alerts,
                        subscribers, tasks, seen_events, seen_order>>
    ELSE LET added == seen_events \cup {event_id}
             order == Append(FilterSeq(seen_order, seen_events), event_id)
         IN  /\ seen_order' = order
             /\ IF Cardinality(added) > SeenLimit
                THEN /\ seen_events' \in TrimmedSeen(added)
                     /\ last' = [NoCall EXCEPT !.op = "check_alert", !.ok = TRUE,
                                               !.outcome = "trimmed"]
                ELSE /\ seen_events' = added
                     /\ last' = [NoCall EXCEPT !.op = "check_alert", !.ok = TRUE]
             /\ IF magnitude >= 40
                THEN /\ alert_counter < MaxQuakeAlerts
                     /\ CreateAlertEffect(QuakeSeverity(magnitude), TtlQuake)
                ELSE UNCHANGED <<alert_counter, alertObj, alerts, active_alerts, tasks>>
             /\ UNCHANGED <<now, subscribers>>

\* _check_alert(event)
CheckAlert(event_id, magnitude) ==
    /\ CheckAlertEffect(event_id, magnitude)
    /\ UNCHANGED outsideAlerts

(* ----------------------------- CacheService ---------------------------- *)
\* self._cache is a cachetools.TTLCache(maxsize, ttl) with the default timer
\* (time.monotonic) and the default getsizeof (every entry has size 1).  The
\* operators below are what CacheService's calls into it do (cachetools 5).

\* mutant: an entry is expired only once the timer is past its expiry time
ExpiredAtStrict(e, t) == e < t

\* TTLCache: an entry is expired when `not (time < link.expires)`
ExpiredAt(e, t) == ~(t < e)

\* mutant: the expiry time is the time of the set
ExpiryNow(t) == t

\* TTLCache.__setitem__: link.expires = time + self.ttl
Expiry(t) == t + CacheTtl

\* mutant: the key most recently set or read is popped
PopKeyNewest(l) == l[Len(l)]

\* TTLCache.popitem: key = next(iter(self.__links))
PopKey(l) == Head(l)

\* Cache.__setitem__ for a key that is not stored:
\* `while self.__currsize + size > maxsize: self.popitem()`; the keys popped
RECURSIVE Evicted(_)
Evicted(l) ==
    IF l # <<>> /\ Len(l) + 1 > MaxSize
    THEN {PopKey(l)} \cup Evicted(FilterSeq(l, Range(l) \ {PopKey(l)}))
    ELSE {}

\* mutant: every get counts as a hit
CountsAlways(v) == TRUE

\* CacheService.get: `if value is not None`
CountsAsHit(v) == v # None

\* A CacheService c is the record of its fields: data and links (its TTLCache),
\* hits and misses.  t is the value of the timer.

\* the keys TTLCache.expire(time) leaves
LiveKeysOf(c, t) == {k \in DOMAIN c.data : ~ExpiredAt(c.data[k].expires, t)}

\* self._cache.get(key): Cache.get returns self[key] if key in self (that is
\* TTLCache.__contains__: stored and not expired), else None
GetValueOf(c, t, k) == IF k \in LiveKeysOf(c, t) THEN c.data[k].value ELSE None

\* OrderedDict.move_to_end(key), done by TTLCache.__getlink on every read and set
MoveToEnd(l, k) == Append(FilterSeq(l, Range(l) \ {k}), k)

\* CacheService.get(key): the service after the call
AfterGet(c, t, k) ==
    [data   |-> c.data,
     links  |-> IF k \in LiveKeysOf(c, t) THEN MoveToEnd(c.links, k) ELSE c.links,
     hits   |-> IF CountsAsHit(GetValueOf(c, t, k)) THEN c.hits + 1 ELSE c.hits,
     misses |-> IF CountsAsHit(GetValueOf(c, t, k)) THEN c.misses ELSE c.misses + 1]

\* the keys that CacheService.set(key, value) evicts to make room
EvictedBySet(c, t, k) ==
    IF k \in LiveKeysOf(c, t) THEN {}
    ELSE Evicted(FilterSeq(c.links, LiveKeysOf(c, t)))

\* CacheService.set(key, value): TTLCache.__setitem__ expires what is due,
\* makes room for a key that is not stored, stores the value and moves the key
\* to the end of both orders; the service after the call
AfterSet(c, t, k, v) ==
    LET kept == LiveKeysOf(c, t) \ EvictedBySet(c, t, k)
        entry == [value |-> v, expires |-> Expiry(t), set_at |-> t]
    IN  [data   |-> [x \in kept \cup {k} |-> IF x = k THEN entry ELSE c.data[x]],
         links  |-> Append(FilterSeq(c.links, kept \ {k}), k),
         hits   |-> c.hits,
         misses |-> c.misses]

\* the CacheService of the variables cache_data, cache_links, hits and misses
TheCache ==
    [data |-> cache_data, links |-> cache_links, hits |-> hits, misses |-> misses]

LiveKeys == LiveKeysOf(TheCache, clock)

\* TTLCache.__contains__
Contains(k) == k \in LiveKeys

GetValue(k) == GetValueOf(TheCache, clock, k)

\* round(n / d, 0) as Python rounds: to the nearest, a tie to the even neighbour
RoundHalfEven(n, d) ==
    LET q == n \div d
        r == n % d
    IN  IF 2 * r < d THEN q
        ELSE IF 2 * r > d THEN q + 1
        ELSE IF q % 2 = 0 THEN q ELSE q + 1

\* stats["hit_rate"]: round(hits / max(1, hits + misses) * 100, 1), in tenths
\* of a percent
HitRate == RoundHalfEven(1000 * hits, Max(1, hits + misses))

\* CacheService.get(key)
CacheGet(k) ==
    LET after == AfterGet(TheCache, clock, k)
    IN  /\ hits + misses < MaxGets
        /\ cache_links' = after.links
        /\ hits' = after.hits
        /\ misses' = after.misses
        /\ cache_last' = [NoCacheCall EXCEPT !.op = "get", !.key = k,
                                             !.value = GetValue(k)]
        /\ UNCHANGED <<clock, cache_data>>
        /\ UNCHANGED outsideCache

\* CacheService.set(key, value)
CacheSet(k, v) ==
    LET after == AfterSet(TheCache, clock, k, v)
    IN  /\ cache_data' = after.data
        /\ cache_links' = after.links
        /\ cache_last' = [NoCacheCall EXCEPT !.op = "set", !.key = k, !.value = v,
                                             !.evicted = EvictedBySet(TheCache, clock, k)]
        /\ UNCHANGED <<clock, hits, misses>>
        /\ UNCHANGED outsideCache

\* CacheService.delete(key): self._cache.pop(key, None)
CacheDelete(k) ==
    /\ IF Contains(k)
       THEN /\ cache_data' = Restrict(cache_data, DOMAIN cache_data \ {k})
            /\ cache_links' = FilterSeq(cache_links, Range(cache_links) \ {k})
       ELSE UNCHANGED <<cache_data, cache_links>>
    /\ cache_last' = [NoCacheCall EXCEPT !.op = "delete", !.key = k]
    /\ UNCHANGED <<clock, hits, misses>>
    /\ UNCHANGED outsideCache

\* CacheService.clear(): popitem until the cache is empty
CacheClear ==
    /\ cache_data' = NoEntries
    /\ cache_links' = <<>>
    /\ cache_last' = [NoCacheCall EXCEPT !.op = "clear"]
    /\ UNCHANGED <<clock, hits, misses>>
    /\ UNCHANGED outsideCache

\* CacheService.stats: len(self._cache) counts the entries that are not expired
CacheStats ==
    /\ cache_last' = [NoCacheCall EXCEPT !.op = "stats",
                                         !.size = Cardinality(LiveKeys),
                                         !.hit_rate = HitRate]
    /\ UNCHANGED <<clock, cache_data, cache_links, hits, misses>>
    /\ UNCHANGED outsideCache

\* time.monotonic() advances
ClockTick ==
    /\ clock < MaxClock
    /\ clock' = clock + 1
    /\ cache_last' = [NoCacheCall EXCEPT !.op = "tick"]
    /\ UNCHANGED <<cache_data, cache_links, hits, misses>>
    /\ UNCHANGED outsideCache

(* ------------------------ the report services ------------------------- *)

\* latitudes and longitudes in units of 0.0001 degree
Latitudes == {350004, 350006}
Longitudes == {1390000}

\* round(x, 3) of a coordinate, in units of 0.001 degree
Round3(x) == RoundHalfEven(x, 10)

\* the arguments of DisasterService.assess_all_risks (ndvi in hundredths);
\* all but the coordinates and the slope at their defaults
RiskCalls ==
    [latitude : Latitudes, longitude : Longitudes, elevation : {100},
     slope : {5, 40}, soil_type : {"Loam"}, sand_pct : {40}, clay_pct : {25},
     land_cover : {"cropland"}, ndvi : {50}]

\* the arguments of SoilService.analyze
SoilCalls ==
    [latitude : Latitudes, longitude : Longitudes, elevation : {100, 3000},
     land_cover : {"cropland"}]

\* make_key("risk", lat=round(latitude, 3), lon=round(longitude, 3)); the key
\* is the prefix and 12 hex digits of the MD5 of the sorted parameters, which
\* tells the few parameter records of the model apart
RiskKey(a) ==
    [prefix |-> "risk", lat |-> Round3(a.latitude), lon |-> Round3(a.longitude)]

\* make_key("soil", lat=round(latitude, 3), lon=round(longitude, 3), lc=land_cover)
SoilKey(a) ==
    [prefix |-> "soil", lat |-> Round3(a.latitude), lon |-> Round3(a.longitude),
     lc |-> a.land_cover]

\* the result dict of a report call: every number in it is computed from the
\* call's arguments (and the weather), so the model holds the arguments
ReportFor(a) == [computed_for |-> a]

\* a report call on cache c under key: what it returns and the cache after it.
\* The awaits of the weather service between the get and the set are taken to
\* complete before another request runs.
ReportCall(c, key, a) ==
    LET cached == GetValueOf(c, clock, key)
        got == AfterGet(c, clock, key)
    IN  IF cached # None
        THEN [report |-> cached, cached |-> TRUE, cache |-> got]
        ELSE [report |-> ReportFor(a), cached |-> FALSE,
              cache |-> AfterSet(got, clock, key, ReportFor(a))]

\* the number of report calls made: each does one get on its cache
ReportCalls ==
    risk_cache.hits + risk_cache.misses + soil_cache.hits + soil_cache.misses

\* DisasterService.assess_all_risks
AssessAllRisks(a) ==
    LET r == ReportCall(risk_cache, RiskKey(a), a)
    IN  /\ ReportCalls < MaxGets
        /\ risk_cache' = r.cache
        /\ report_last' = [op |-> "assess_all_risks", args |-> a,
                           report |-> r.report, cached |-> r.cached]
        /\ UNCHANGED <<soil_cache, clock>>
        /\ UNCHANGED outsideReports

\* SoilService.analyze
Analyze(a) ==
    LET r == ReportCall(soil_cache, SoilKey(a), a)
    IN  /\ ReportCalls < MaxGets
        /\ soil_cache' = r.cache
        /\ report_last' = [op |-> "analyze", args |-> a,
                           report |-> r.report, cached |-> r.cached]
        /\ UNCHANGED <<risk_cache, clock>>
        /\ UNCHANGED outsideReports

(* ------------------------- the scoring engine -------------------------- *)
\* Probabilities and scores are counted in thousandths.

\* hazard probabilities handed to _calculate_composite_risk
HazardGrid == {0, 4, 333, 667, 990, 1000}

CompositeInputs ==
    [landslide : HazardGrid, flood : HazardGrid, liquefaction : HazardGrid,
     wildfire : HazardGrid]

\* mutant: the weighted average is subtracted
CompositeMinus(a) ==
    60 * Max(Max(a.landslide, a.flood), Max(a.liquefaction, a.wildfire))
      - (12 * a.landslide + 12 * a.flood + 8 * a.liquefaction + 8 * a.wildfire)

\* composite * 100 of _calculate_composite_risk, in thousandths:
\* (max_risk * 0.6 + avg_risk * 0.4) * 100 with
\* avg_risk = 0.30 landslide + 0.30 flood + 0.20 liquefaction + 0.20 wildfire
Composite(a) ==
    60 * Max(Max(a.landslide, a.flood), Max(a.liquefaction, a.wildfire))
      + (12 * a.landslide + 12 * a.flood + 8 * a.liquefaction + 8 * a.wildfire)

\* the 7 bands of _calculate_composite_risk
CompositeLevel(score) ==
    IF score < 15 THEN "Very Low"
    ELSE IF score < 30 THEN "Low"
    ELSE IF score < 45 THEN "Low-Moderate"
    ELSE IF score < 60 THEN "Moderate"
    ELSE IF score < 75 THEN "High"
    ELSE IF score < 90 THEN "Very High"
    ELSE "Extreme"

\* DisasterService._calculate_composite_risk: score = int(round(composite * 100))
CompositeRisk(a) ==
    LET score == RoundHalfEven(Composite(a), 1000)
    IN  [score |-> score, level |-> CompositeLevel(score)]

\* a call of _calculate_composite_risk
CalculateCompositeRisk ==
    /\ fn_result = None
    /\ fn_result' = CompositeRisk(fn_args)
    /\ UNCHANGED fn_args
    /\ UNCHANGED outsideFns

\* a further call with one of the four inputs raised and the others as before
CalculateWithRaised(h, v) ==
    /\ fn_result # None
    /\ v > fn_args[h]
    /\ fn_args' = [fn_args EXCEPT ![h] = v]
    /\ fn_result' = CompositeRisk(fn_args')
    /\ UNCHANGED outsideFns

(* --------------------------- the hazard models ------------------------- *)
\* A sub-factor score is counted in units of 0.00001, a weight in hundredths,
\* a multiplier in percent: a weighted sum is in units of 1e-7 and a
\* probability after its multiplier in units of 1e-9.  A returned probability
\* (rounded to 3 decimals) is in thousandths.

Clip(x, lo, hi) == IF x < lo THEN lo ELSE IF x > hi THEN hi ELSE x

\* sum(weights[k] * scores[k] for k in weights), over the keys in order
RECURSIVE WeightedSum(_, _, _)
WeightedSum(order, weights, scores) ==
    IF order = <<>> THEN 0
    ELSE weights[Head(order)] * scores[Head(order)]
           + WeightedSum(Tail(order), weights, scores)

\* _classify_risk of the landslide, flood and fire models (p in units of 1e-9)
ClassifyRisk(p) ==
    IF p < 100000000 THEN "Very Low"
    ELSE IF p < 250000000 THEN "Low"
    ELSE IF p < 450000000 THEN "Moderate"
    ELSE IF p < 650000000 THEN "High"
    ELSE IF p < 800000000 THEN "Very High"
    ELSE "Extreme"

\* LiquefactionModel._classify_susceptibility (score in units of 1e-9)
ClassifySusceptibility(score) ==
    IF score < 150000000 THEN "Very Low"
    ELSE IF score < 300000000 THEN "Low"
    ELSE IF score < 500000000 THEN "Moderate"
    ELSE IF score < 700000000 THEN "High"
    ELSE "Very High"

\* round(probability, 3): from units of 1e-9 to thousandths
Round3Dec(p) == RoundHalfEven(p, 1000000)

\* mutant: of two equal scores the one declared later comes first
RanksBeforeTiesReversed(order, scores, a, b) ==
    \/ scores[a] > scores[b]
    \/ scores[a] = scores[b] /\ Pos(order, a) > Pos(order, b)

\* sorted(scores.items(), key=lambda x: x[1], reverse=True): a before b; the
\* sort is stable, also with reverse=True, and a dict lists its items in the
\* order of insertion
RanksBefore(order, scores, a, b) ==
    \/ scores[a] > scores[b]
    \/ scores[a] = scores[b] /\ Pos(order, a) < Pos(order, b)

RECURSIVE SortedFactors(_, _, _)
SortedFactors(order, scores, S) ==
    IF S = {} THEN <<>>
    ELSE LET m == CHOOSE x \in S : \A y \in S \ {x} : RanksBefore(order, scores, x, y)
         IN  <<m>> \o SortedFactors(order, scores, S \ {m})

\* [names[k] for k, v in sorted_factors[:n] if v > 0.3]
RECURSIVE NamesOver(_, _, _)
NamesOver(keys, names, scores) ==
    IF keys = <<>> THEN <<>>
    ELSE IF scores[Head(keys)] > 30000
         THEN <<names[Head(keys)]>> \o NamesOver(Tail(keys), names, scores)
         ELSE NamesOver(Tail(keys), names, scores)

\* _get_contributing_factors of a model whose scores dict has the keys of
\* `order`, whose tags are `names`, and which keeps the first n
GetContributingFactors(order, names, scores, n) ==
    NamesOver(Take(SortedFactors(order, scores, Range(order)), n), names, scores)

\* LandslideModel.predict: the keys of weights and of scores, in their order
LandslideOrder ==
    <<"slope", "rainfall", "soil", "vegetation", "lithology", "curvature",
      "fault", "river", "elevation", "aspect">>

LandslideWeights ==
    [slope |-> 25, rainfall |-> 18, soil |-> 15, vegetation |-> 10,
     lithology |-> 8, curvature |-> 7, fault |-> 6, river |-> 4,
     elevation |-> 4, aspect |-> 3]

LandslideNames ==
    [slope |-> "steep_slope", rainfall |-> "heavy_rainfall",
     soil |-> "unstable_soil", vegetation |-> "poor_vegetation_cover",
     lithology |-> "susceptible_geology", curvature |-> "concave_terrain",
     fault |-> "fault_proximity", river |-> "river_undercutting",
     elevation |-> "elevation_zone", aspect |-> "slope_orientation"]

\* LandslideModel._apply_regional_adjustment: the multiplier, in percent
LandslideRegion(lat, lon) ==
    IF 25 <= lat /\ lat <= 38 /\ 70 <= lon /\ lon <= 100 THEN 120
    ELSE IF 33 <= lat /\ lat <= 43 /\ 129 <= lon /\ lon <= 146 THEN 115
    ELSE IF -40 <= lat /\ lat <= 10 /\ -80 <= lon /\ lon <= -65 THEN 115
    ELSE IF 43 <= lat /\ lat <= 48 /\ 5 <= lon /\ lon <= 17 THEN 110
    ELSE 100

\* LandslideModel.predict, from the sub-factor scores on
LandslidePredict(a) ==
    LET sum == Clip(WeightedSum(LandslideOrder, LandslideWeights, a.scores),
                    0, 10000000)
        probability == Clip(sum * LandslideRegion(a.latitude, a.longitude),
                            0, 990000000)
    IN  [probability |-> Round3Dec(probability),
         risk_level |-> ClassifyRisk(probability),
         contributing_factors |->
             GetContributingFactors(LandslideOrder, LandslideNames, a.scores, 3)]

FloodOrder ==
    <<"terrain", "rainfall", "infiltration", "proximity", "cover", "drainage">>

FloodWeights ==
    [terrain |-> 20, rainfall |-> 25, infiltration |-> 15, proximity |-> 20,
     cover |-> 10, drainage |-> 10]

FloodNames ==
    [terrain |-> "low_elevation_flat_terrain", rainfall |-> "heavy_precipitation",
     infiltration |-> "poor_soil_drainage", proximity |-> "close_to_water_body",
     cover |-> "impervious_surface", drainage |-> "high_drainage_concentration"]

\* FloodModel._regional_adjustment: the multiplier, in percent
FloodRegion(lat, lon) ==
    IF 20 <= lat /\ lat <= 27 /\ 85 <= lon /\ lon <= 95 THEN 130
    ELSE IF 28 <= lat /\ lat <= 35 /\ -95 <= lon /\ lon <= -88 THEN 115
    ELSE IF 51 <= lat /\ lat <= 54 /\ 3 <= lon /\ lon <= 8 THEN 110
    ELSE 100

\* FloodModel.predict, from the sub-factor scores on (the inundation depth and
\* the return period are left out)
FloodPredict(a) ==
    LET sum == Clip(WeightedSum(FloodOrder, FloodWeights, a.scores), 0, 10000000)
        probability == Clip(sum * FloodRegion(a.latitude, a.longitude),
                            0, 990000000)
    IN  [probability |-> Round3Dec(probability),
         risk_level |-> ClassifyRisk(probability),
         contributing_factors |->
             GetContributingFactors(FloodOrder, FloodNames, a.scores, 3)]

FireOrder == <<"fuel_moisture", "weather", "terrain", "fuel_type">>

FireWeights ==
    [fuel_moisture |-> 30, weather |-> 30, terrain |-> 15, fuel_type |-> 25]

FireNames ==
    [fuel_moisture |-> "dry_vegetation", weather |-> "hot_dry_windy",
     terrain |-> "steep_terrain", fuel_type |-> "flammable_vegetation"]

\* FireModel._seasonal_adjustment: the multiplier, in percent, for the month
\* that datetime.datetime.now() gives
SeasonalAdjustment(latitude, m) ==
    IF latitude > 0
    THEN IF 6 <= m /\ m <= 10 THEN 120
         ELSE IF m \in {4, 5, 11} THEN 100
         ELSE 60
    ELSE IF m \in {12, 1, 2, 3} THEN 120
         ELSE IF m \in {10, 11, 4} THEN 100
         ELSE 60

\* FireModel.predict, from the sub-factor scores on (the dryness index, the
\* fire-weather index and the spread potential are left out)
FirePredict(a) ==
    LET sum == WeightedSum(FireOrder, FireWeights, a.scores)
        probability == Clip(sum * SeasonalAdjustment(a.latitude, month),
                            0, 990000000)
    IN  [probability |-> Round3Dec(probability),
         risk_level |-> ClassifyRisk(probability),
         contributing_factors |->
             GetContributingFactors(FireOrder, FireNames, a.scores, 2)]

LiquefactionOrder == <<"soil_composition", "groundwater", "density">>

LiquefactionWeights ==
    [soil_composition |-> 40, groundwater |-> 35, density |-> 25]

\* LiquefactionModel.predict, from the sub-factor scores on (the probabilities
\* given an earthquake are left out)
LiquefactionPredict(a) ==
    LET susceptibility ==
            100 * WeightedSum(LiquefactionOrder, LiquefactionWeights, a.scores)
    IN  [susceptibility |-> ClassifySusceptibility(susceptibility),
         susceptibility_score |-> Round3Dec(susceptibility)]

\* sub-factor scores the factor functions can return
LandslideScores ==
    [slope : {5000, 73500, 90000}, rainfall : {5000, 50000, 90000},
     soil : {41625, 92000}, vegetation : {17500}, lithology : {60000},
     curvature : {30000, 80000}, fault : {10000}, river : {10000},
     elevation : {20000}, aspect : {30000, 70000}]

FloodScores ==
    [terrain : {20000, 30000, 70000}, rainfall : {20000, 30000, 70000},
     infiltration : {20000, 30000, 70000}, proximity : {30000, 70000},
     cover : {50000}, drainage : {40000}]

FireScores ==
    [fuel_moisture : {10000, 40000, 85000}, weather : {10000, 40000, 85000},
     terrain : {16000, 40000}, fuel_type : {5000, 40000, 80000}]

LiquefactionScores ==
    [soil_composition : {20000, 50000, 90000}, groundwater : {32500, 96500},
     density : {10000, 30000, 50000, 80000}]

\* the calls of the hazard models: latitude and longitude in degrees
HazardCalls ==
    [model : {"landslide"}, latitude : {10, 30}, longitude : {10, 80},
     scores : LandslideScores]
    \cup [model : {"flood"}, latitude : {10, 23}, longitude : {90},
          scores : FloodScores]
    \cup [model : {"fire"}, latitude : {35, -35}, longitude : {10},
          scores : FireScores]
    \cup [model : {"liquefaction"}, latitude : {10}, longitude : {10},
          scores : LiquefactionScores]

\* a call of predict of the model the arguments name
Predict ==
    /\ fn_result' = CASE fn_args.model = "landslide" -> LandslidePredict(fn_args)
                      [] fn_args.model = "flood" -> FloodPredict(fn_args)
                      [] fn_args.model = "fire" -> FirePredict(fn_args)
                      [] fn_args.model = "liquefaction" -> LiquefactionPredict(fn_args)
    /\ fn_previous' = fn_result
    /\ UNCHANGED <<fn_args, month>>
    /\ UNCHANGED <<alertVars, cacheVars, reportVars, fetchVars, wsVars, rlVars>>

\* the calendar month of the wall clock changes
MonthPasses ==
    /\ month' = (month % 12) + 1
    /\ UNCHANGED <<fn_args, fn_result, fn_previous>>
    /\ UNCHANGED <<alertVars, cacheVars, reportVars, fetchVars, wsVars, rlVars>>

(* ------------- the landslide model as a function of slope and rain ----- *)
\* slope angles in degrees: one or two in each segment of _slope_factor, at
\* which the score is a whole number of 1e-5
Slopes == {3, 5, 10, 21, 36, 45}

\* rainfall in mm: one value in each step of _rainfall_factor
Rainfalls == {0, 10, 30, 50, 100, 400}

\* mutant: the last segment of the slope score falls back to 0.5
SlopeFactorDip(slope) ==
    IF slope < 5 THEN 5000
    ELSE IF slope < 15 THEN 15000 + ((slope - 5) * 20000) \div 10
    ELSE IF slope < 30 THEN 35000 + ((slope - 15) * 30000) \div 15
    ELSE IF slope < 45 THEN 65000 + ((slope - 30) * 25000) \div 15
    ELSE 50000

\* LandslideModel._slope_factor, in units of 1e-5
SlopeFactor(slope) ==
    IF slope < 5 THEN 5000
    ELSE IF slope < 15 THEN 15000 + ((slope - 5) * 20000) \div 10
    ELSE IF slope < 30 THEN 35000 + ((slope - 15) * 30000) \div 15
    ELSE IF slope < 45 THEN 65000 + ((slope - 30) * 25000) \div 15
    ELSE 90000

\* LandslideModel._rainfall_factor, in units of 1e-5
RainfallFactor(rainfall_mm) ==
    IF rainfall_mm < 10 THEN 5000
    ELSE IF rainfall_mm < 30 THEN 15000
    ELSE IF rainfall_mm < 50 THEN 30000
    ELSE IF rainfall_mm < 100 THEN 50000
    ELSE IF rainfall_mm < 200 THEN 75000
    ELSE 90000

\* the scores of the eight other factors: the least and the greatest value
\* each factor function can return, and the defaults of predict
OtherScores ==
    {[slope |-> 0, rainfall |-> 0, soil |-> 8000, vegetation |-> 0,
      lithology |-> 20000, curvature |-> 20000, fault |-> 10000,
      river |-> 10000, elevation |-> 20000, aspect |-> 30000],
     [slope |-> 0, rainfall |-> 0, soil |-> 41625, vegetation |-> 17500,
      lithology |-> 60000, curvature |-> 30000, fault |-> 10000,
      river |-> 10000, elevation |-> 20000, aspect |-> 30000],
     [slope |-> 0, rainfall |-> 0, soil |-> 92000, vegetation |-> 100000,
      lithology |-> 90000, curvature |-> 80000, fault |-> 90000,
      river |-> 80000, elevation |-> 70000, aspect |-> 70000]}

\* the inputs held equal from call to call: a place outside the regional
\* boxes and one inside the box of the greatest multiplier, and the other
\* factors
LandslideSites ==
    [model : {"landslide"}, latitude : {10, 30}, longitude : {80},
     scores : OtherScores]

\* a call of LandslideModel.predict with the given slope and rainfall_mm
LandslideCall(slope, rainfall_mm) ==
    /\ fn_previous' = fn_result
    /\ fn_result' =
          [slope |-> slope, rainfall_mm |-> rainfall_mm,
           out |-> LandslidePredict(
                      [fn_args EXCEPT !.scores.slope = SlopeFactor(slope),
                                      !.scores.rainfall =
                                          RainfallFactor(rainfall_mm)])]
    /\ UNCHANGED <<fn_args, month>>
    /\ UNCHANGED <<alertVars, cacheVars, reportVars, fetchVars, wsVars, rlVars>>

(* --------------------------- the erosion model ------------------------- *)
\* R is counted in units, K in thousandths, LS and P in tenths, C in
\* hundredths: the product A is in units of 1e-7 t/ha/yr.  The returned soil
\* loss (rounded to 2 decimals) is in hundredths.

\* the bands of ErosionModel.RISK_THRESHOLDS in the order of the dict, in
\* hundredths; the last has no upper limit (float("inf"))
RiskThresholds ==
    <<[level |-> "Very Low", low |-> 0, high |-> 200],
      [level |-> "Low", low |-> 200, high |-> 500],
      [level |-> "Moderate", low |-> 500, high |-> 1000],
      [level |-> "High", low |-> 1000, high |-> 2000],
      [level |-> "Very High", low |-> 2000, high |-> 5000],
      [level |-> "Severe", low |-> 5000, high |-> -1]>>

\* mutant: the bands closed at both ends
InBandClosed(band, soil_loss) ==
    band.low <= soil_loss /\ (band.high = -1 \/ soil_loss <= band.high)

\* `if low <= soil_loss < high`
InBand(band, soil_loss) ==
    band.low <= soil_loss /\ (band.high = -1 \/ soil_loss < band.high)

\* ErosionModel._classify_risk: the first band of the dict that holds the
\* soil loss, "Severe" if none does
RECURSIVE ErosionClassifyRisk(_, _)
ErosionClassifyRisk(bands, soil_loss) ==
    IF bands = <<>> THEN "Severe"
    ELSE IF InBand(Head(bands), soil_loss) THEN Head(bands).level
    ELSE ErosionClassifyRisk(Tail(bands), soil_loss)

\* values the five factor functions can return
ErosionFactors ==
    [R : {0, 50, 125, 161, 1250}, K : {0, 31, 32, 40}, LS : {1, 4, 10, 25, 40},
     C : {0, 9, 35, 100}, P : {3, 5, 10}]

\* ErosionModel.calculate, from the five factors on
ErosionCalculate(a) ==
    LET A == Max(0, RoundHalfEven(a.R * a.K * a.LS * a.C * a.P, 100000))
    IN  [soil_loss_tons_ha_yr |-> A,
         risk_level |-> ErosionClassifyRisk(RiskThresholds, A)]

\* a call of ErosionModel.calculate
Calculate ==
    /\ fn_result = None
    /\ fn_result' = ErosionCalculate(fn_args)
    /\ UNCHANGED <<fn_args, fn_previous, month>>
    /\ UNCHANGED <<alertVars, cacheVars, reportVars, fetchVars, wsVars, rlVars>>

(* ------------------------ the analytical soil model -------------------- *)
\* Texture percentages are counted in units of 0.005 until they are rounded
\* to one decimal, and in tenths from then on; lon_factor is in hundredths.

\* `np.sin(np.radians(longitude)) * 5`: every value from -5 to 5
LonFactors == -500..500

\* the arguments that select the texture: one value for each branch
SoilInputs ==
    [elevation : {500, 2500}, latitude : {-60, -10, 10, 30, 60},
     mean_precip : {200, 800, 2000}, lon_factor : LonFactors]

\* the sand, silt, clay of the parent material, in percent
BaseTexture(a) ==
    LET abs_lat == IF a.latitude < 0 THEN 0 - a.latitude ELSE a.latitude
    IN  IF a.elevation > 2000 THEN <<50, 30, 20>>
        ELSE IF abs_lat > 50 THEN <<35, 40, 25>>
        ELSE IF abs_lat < 15 THEN <<30, 25, 45>>
        ELSE IF a.mean_precip > 1500 THEN <<25, 30, 45>>
        ELSE IF a.mean_precip < 300 THEN <<65, 25, 10>>
        ELSE <<40, 35, 25>>

\* mutant: the clay taken as what the sand leaves
ClayRemainderOfSand(sand, silt) == 1000 - sand

\* `clay = round(100.0 - sand - silt, 1)`, in tenths
ClayRemainder(sand, silt) == 1000 - sand - silt

\* the texture of SoilPredictionModel._predict_analytical, in tenths
SoilTexture(a) ==
    LET base == BaseTexture(a)
        sand0 == Clip(200 * base[1] + 2 * a.lon_factor, 1000, 18000)
        clay0 == Clip(200 * base[3] - a.lon_factor, 1000, 15000)
        silt0 == 20000 - sand0 - clay0
        low == silt0 < 1000
        total0 == sand0 + clay0 + 1000
        \* `if silt < 5`: silt set to 5 and the three rescaled to 100, then
        \* `round(_, 1)` of each
        sand1 == IF low THEN RoundHalfEven(sand0 * 1000, total0)
                 ELSE RoundHalfEven(sand0, 20)
        clay1 == IF low THEN RoundHalfEven(clay0 * 1000, total0)
                 ELSE RoundHalfEven(clay0, 20)
        silt1 == IF low THEN RoundHalfEven(1000 * 1000, total0)
                 ELSE RoundHalfEven(silt0, 20)
        total == sand1 + silt1 + clay1
        sand == RoundHalfEven(sand1 * 1000, total)
        silt == RoundHalfEven(silt1 * 1000, total)
    IN  [sand_pct |-> sand, silt_pct |-> silt,
         clay_pct |-> ClayRemainder(sand, silt), rounded |-> total]
    \* `rounded` is the `total` of the three rounded values, kept for reference

\* a call of SoilPredictionModel._predict_analytical
PredictAnalytical ==
    /\ fn_result = None
    /\ fn_result' = SoilTexture(fn_args)
    /\ UNCHANGED <<fn_args, fn_previous, month>>
    /\ UNCHANGED <<alertVars, cacheVars, reportVars, fetchVars, wsVars, rlVars>>

(* --------------------------- the WebSocket route ----------------------- *)

\* websocket_alerts up to its first await after accept:
\* _connections.add(websocket)
Connect(ws) ==
    /\ ws \notin connections
    /\ connections' = connections \cup {ws}
    /\ UNCHANGED <<ws_bcast, ws_received, ws_done>>
    /\ UNCHANGED <<alertVars, cacheVars, reportVars, fnVars, fetchVars, rlVars>>

\* the finally of websocket_alerts: _connections.discard(websocket)
Disconnect(ws) ==
    /\ ws \in connections
    /\ connections' = connections \ {ws}
    /\ ws_bcast' = IF ws_bcast = None THEN None
                   ELSE [ws_bcast EXCEPT !.stayed = @ \ {ws}]
    /\ UNCHANGED <<ws_received, ws_done>>
    /\ UNCHANGED <<alertVars, cacheVars, reportVars, fnVars, fetchVars, rlVars>>

\* the members of _connections that the iterator has not passed
Ahead(pos) == {ws \in connections : ws > pos}

\* the member the iterator yields next
NextConn(pos) == CHOOSE ws \in Ahead(pos) : \A o \in Ahead(pos) : ws <= o

\* next() of a set iterator raises RuntimeError("Set changed size during
\* iteration") when len(set) is not what it was when the iterator was made
SizeChanged(size) == Cardinality(connections) # size

\* broadcast_alert(alert) up to its first await: `for ws in _connections`
\* yields the first client and ws.send_text(message) suspends
BroadcastAlert ==
    /\ ws_bcast = None
    /\ connections # {}
    /\ ws_bcast' = [current |-> NextConn(0), size |-> Cardinality(connections),
                    disconnected |-> {}, stayed |-> connections]
    /\ ws_received' = [ws \in WsIds |-> 0]
    /\ ws_done' = None
    /\ UNCHANGED connections
    /\ UNCHANGED <<alertVars, cacheVars, reportVars, fnVars, fetchVars, rlVars>>

\* broadcast_alert from the return of a send to the next await or to its end:
\* the send to a client that is gone raises and the client is added to
\* `disconnected`; then the for statement asks the iterator for the next
\* client.  A RuntimeError of the iterator leaves broadcast_alert (it is caught
\* and logged by AlertService._broadcast); at the end of the loop
\* _connections.difference_update(disconnected) runs.
SendReturns ==
    /\ ws_bcast # None
    /\ LET cur == ws_bcast.current
           sent == cur \in connections
           gone == IF sent THEN ws_bcast.disconnected
                   ELSE ws_bcast.disconnected \cup {cur}
       IN  /\ ws_received' = IF sent THEN [ws_received EXCEPT ![cur] = @ + 1]
                             ELSE ws_received
           /\ IF SizeChanged(ws_bcast.size)
              THEN /\ ws_bcast' = None
                   /\ ws_done' = [outcome |-> "RuntimeError",
                                  stayed |-> ws_bcast.stayed]
                   /\ UNCHANGED connections
              ELSE IF Ahead(cur) = {}
              THEN /\ ws_bcast' = None
                   /\ ws_done' = [outcome |-> "returned",
                                  stayed |-> ws_bcast.stayed]
                   /\ connections' = connections \ gone
              ELSE /\ ws_bcast' = [ws_bcast EXCEPT !.current = NextConn(cur),
                                                   !.disconnected = gone]
                   /\ UNCHANGED <<ws_done, connections>>
    /\ UNCHANGED <<alertVars, cacheVars, reportVars, fnVars, fetchVars, rlVars>>

(* ------------------------- the rate-limit middleware ------------------- *)

RECURSIVE Recent(_, _)
\* [t for t in self._clients[client_ip] if now - t < 60]
Recent(times, t_now) ==
    IF times = <<>> THEN <<>>
    ELSE IF t_now - Head(times) < Window
         THEN <<Head(times)>> \o Recent(Tail(times), t_now)
         ELSE Recent(Tail(times), t_now)

\* mutant: the request is refused only above the limit
OverLimitStrict(n) == n > RequestsPerMinute

\* `if len(self._clients[client_ip]) >= self.rpm`
OverLimit(n) == n >= RequestsPerMinute

\* the requests passed on to the application so far
PassedOn ==
    LET RECURSIVE Sum(_)
        Sum(S) == IF S = {} THEN 0
                  ELSE LET ip == CHOOSE x \in S : TRUE
                       IN  Len(rl_passed[ip]) + Sum(S \ {ip})
    IN  Sum(ClientIps)

\* dispatch(request, call_next) up to its await: the old entries are dropped,
\* the request is answered with 429 or recorded and handed to call_next
Dispatch(client_ip) ==
    /\ PassedOn < MaxRequests
    /\ LET kept == Recent(rl_clients[client_ip], rl_now)
       IN  IF OverLimit(Len(kept))
           THEN /\ rl_clients' = [rl_clients EXCEPT ![client_ip] = kept]
                /\ rl_last' = [client_ip |-> client_ip, status_code |-> 429,
                               remaining |-> 0]
                /\ UNCHANGED <<rl_inflight, rl_passed>>
           ELSE /\ rl_clients' =
                      [rl_clients EXCEPT ![client_ip] = Append(kept, rl_now)]
                /\ rl_inflight' = [rl_inflight EXCEPT ![client_ip] = @ + 1]
                /\ rl_passed' = [rl_passed EXCEPT ![client_ip] = Append(@, rl_now)]
                /\ rl_last' = [client_ip |-> client_ip, status_code |-> 0,
                               remaining |-> 0]
    /\ UNCHANGED rl_now
    /\ UNCHANGED <<alertVars, cacheVars, reportVars, fnVars, fetchVars, wsVars>>

\* dispatch from the return of call_next on: the X-RateLimit headers
CallNextReturns(client_ip) ==
    /\ rl_inflight[client_ip] > 0
    /\ rl_inflight' = [rl_inflight EXCEPT ![client_ip] = @ - 1]
    /\ rl_last' = [client_ip |-> client_ip, status_code |-> 200,
                   remaining |-> RequestsPerMinute - Len(rl_clients[client_ip])]
    /\ UNCHANGED <<rl_now, rl_clients, rl_passed>>
    /\ UNCHANGED <<alertVars, cacheVars, reportVars, fnVars, fetchVars, wsVars>>

\* time.time() advances
WallClockTick ==
    /\ rl_now < MaxT
    /\ rl_now' = rl_now + 1
    /\ UNCHANGED <<rl_clients, rl_inflight, rl_passed, rl_last>>
    /\ UNCHANGED <<alertVars, cacheVars, reportVars, fnVars, fetchVars, wsVars>>

(* ------------- the upstream-backed calls and the polling task ---------- *)
\* fetch_recent, get_current_weather and get_climate_normals have one shape:
\* a cache get, on a miss an awaited upstream request inside try/except
\* Exception, on success a cache set.  A flow is suspended only in that await
\* (and the polling task in its asyncio.sleep); the for loop of fetch_recent
\* over the events has no await, so no other flow runs while it runs.

\* mutant: CancelledError taken for an Exception, as it was before Python 3.8
IsExceptionAlways(exc) == TRUE

\* `except Exception` catches exc: asyncio.CancelledError derives from
\* BaseException, the errors of the HTTP client derive from Exception
IsException(exc) == exc # "CancelledError"

\* what the awaited upstream request can raise
UpstreamErrors == {"HTTPStatusError", "ConnectTimeout"}

\* mutant: the failure result is stored like a result of the upstream
FailureStoredAlways(outcome) == TRUE

\* whether the call that ended with `outcome` reached its self._cache.set
ReachesCacheSet(outcome) == outcome = "fetched"

\* an event as _parse_event returns it: the fields _check_alert reads
FeedMagnitudes == {50}

\* the upstream events of the feed
FeedIds == 1..MaxFeed

QuakeEvents == [event_id : FeedIds, magnitude : FeedMagnitudes]

\* the responses of the upstream feed, newest event first (orderby=time)
QuakeFeeds ==
    {f \in UNION {[1..n -> QuakeEvents] : n \in 0..MaxFeed} :
        \A i \in 1..(Len(f) - 1) : f[i].event_id = f[i + 1].event_id + 1}

\* GET /risk/earthquake/recent with the poller's parameters or with its defaults
FetchCalls == {PollerCall, [op |-> "fetch_recent", key |-> "eq_1_2.5_100"]}

\* the upstream-backed calls a request makes: fetch_recent and the weather
\* service for one place
RequestCalls ==
    {PollerCall,
     [op |-> "get_current_weather", key |-> "weather:35.0:139.0"],
     [op |-> "get_climate_normals", key |-> "climate:35.0:139.0"]}

\* `if cached:` an empty list is false
Truthy(v) == v # None /\ v # List(<<>>)

\* what the upstream gives for a weather call
UpstreamResult(call) == [py |-> "dict", op |-> call.op, source |-> "open-meteo"]

\* _estimate_weather, _estimate_climate; the `return []` of fetch_recent
Fallback(call) ==
    IF call.op = "fetch_recent" THEN List(<<>>)
    ELSE [py |-> "dict", op |-> call.op, source |-> "estimated"]

\* the CacheService a call reads and writes
CacheOf(call) == IF call.op = "fetch_recent" THEN eq_cache ELSE weather_cache

\* EARTHQUAKE_FETCH_INTERVAL is 300 s, as is the ttl of EarthquakeFetcher._cache
FetchInterval == CacheTtl

\* the number of upstream-backed calls made: each does one get on its cache
UpstreamCalls ==
    eq_cache.hits + eq_cache.misses + weather_cache.hits + weather_cache.misses

\* flow f after its call has returned: the polling task logs and sleeps
Returned(f) == [flow_pc EXCEPT ![f] = IF f = "poller" THEN "sleeping" ELSE "idle"]

WakeAfterReturn(f) == IF f = "poller" THEN clock + FetchInterval ELSE wake_at

\* flow f enters `call`: the cache get and, on a miss, the upstream request
CallStart(f, call) ==
    LET c == CacheOf(call)
        cached == GetValueOf(c, clock, call.key)
        got == AfterGet(c, clock, call.key)
    IN  /\ loop = None
        /\ UpstreamCalls < MaxCalls
        /\ flow_call' = [flow_call EXCEPT ![f] = call]
        /\ IF call.op = "fetch_recent"
           THEN eq_cache' = got /\ UNCHANGED weather_cache
           ELSE weather_cache' = got /\ UNCHANGED eq_cache
        /\ IF Truthy(cached)
           THEN /\ flow_pc' = Returned(f)
                /\ wake_at' = WakeAfterReturn(f)
                /\ fetch_last' = [flow |-> f, call |-> call, outcome |-> "cached",
                                  result |-> cached, raised |-> FALSE]
           ELSE /\ flow_pc' = [flow_pc EXCEPT ![f] = "fetching"]
                /\ UNCHANGED <<wake_at, fetch_last>>
        /\ UNCHANGED <<loop, lifespan, cancel_requested, alerted>>
        /\ UNCHANGED <<alertVars, cacheVars, reportVars, fnVars, wsVars, rlVars>>

\* the polling task is started, or its sleep ends, and it calls fetch_recent
Poll ==
    /\ \/ flow_pc["poller"] = "created"
       \/ flow_pc["poller"] = "sleeping" /\ clock >= wake_at
    /\ ~cancel_requested
    /\ CallStart("poller", PollerCall)

\* a request handler makes an upstream-backed call
Request(call) ==
    /\ flow_pc["request"] = "idle"
    /\ lifespan = "serving"
    /\ CallStart("request", call)

\* the upstream answers the fetch_recent of flow f with `feed`: the for loop
\* over the parsed events begins
FeedArrives(f, feed) ==
    /\ loop = None
    /\ flow_pc[f] = "fetching"
    /\ flow_call[f].op = "fetch_recent"
    /\ f = "poller" => ~cancel_requested
    /\ alert_counter + Len(feed) <= MaxQuakeAlerts
    /\ flow_pc' = [flow_pc EXCEPT ![f] = "looping"]
    /\ loop' = [flow |-> f, todo |-> feed, events |-> feed]
    /\ UNCHANGED <<flow_call, wake_at, eq_cache, weather_cache, fetch_last,
                   lifespan, cancel_requested, alerted>>
    /\ UNCHANGED <<alertVars, cacheVars, reportVars, fnVars, wsVars, rlVars>>

\* one iteration of the for loop of fetch_recent: events.append(event) and
\* self._check_alert(event)
LoopStep ==
    /\ loop # None
    /\ loop.todo # <<>>
    /\ LET ev == Head(loop.todo)
       IN  /\ CheckAlertEffect(ev.event_id, ev.magnitude)
           /\ alerted' = IF alert_counter' # alert_counter
                         THEN [alerted EXCEPT ![ev.event_id] = @ + 1]
                         ELSE alerted
    /\ loop' = [loop EXCEPT !.todo = Tail(loop.todo)]
    /\ UNCHANGED <<flow_pc, flow_call, wake_at, eq_cache, weather_cache,
                   fetch_last, lifespan, cancel_requested>>
    /\ UNCHANGED <<cacheVars, reportVars, fnVars, wsVars, rlVars>>

\* magnitudes of polled events: one below 4.0 and one that alerts
PollMagnitudes == {39, 50}

\* _check_alert(event) for one event of a polled feed, with the count of the
\* alerts each event_id has caused
PollEvent(event_id, magnitude) ==
    /\ loop = None
    /\ CheckAlertEffect(event_id, magnitude)
    /\ alerted' = IF alert_counter' # alert_counter
                  THEN [alerted EXCEPT ![event_id] = @ + 1]
                  ELSE alerted
    /\ UNCHANGED <<flow_pc, flow_call, wake_at, loop, eq_cache, weather_cache,
                   fetch_last, lifespan, cancel_requested>>
    /\ UNCHANGED <<cacheVars, reportVars, fnVars, wsVars, rlVars>>

\* the end of a call of flow f with `outcome` and `result`: the cache set if
\* the call reaches it, and the return
CallEnd(f, outcome, result) ==
    LET call == flow_call[f]
        stored == AfterSet(CacheOf(call), clock, call.key, result)
    IN  /\ IF ReachesCacheSet(outcome)
           THEN IF call.op = "fetch_recent"
                THEN eq_cache' = stored /\ UNCHANGED weather_cache
                ELSE weather_cache' = stored /\ UNCHANGED eq_cache
           ELSE UNCHANGED <<eq_cache, weather_cache>>
        /\ flow_pc' = Returned(f)
        /\ wake_at' = WakeAfterReturn(f)
        /\ fetch_last' = [flow |-> f, call |-> call, outcome |-> outcome,
                          result |-> result, raised |-> FALSE]

\* the for loop is over: self._cache.set(cache_key, events); return events
LoopFinish ==
    /\ loop # None
    /\ loop.todo = <<>>
    /\ CallEnd(loop.flow, "fetched", List(loop.events))
    /\ loop' = None
    /\ UNCHANGED <<flow_call, lifespan, cancel_requested, alerted>>
    /\ UNCHANGED <<alertVars, cacheVars, reportVars, fnVars, wsVars, rlVars>>

\* the upstream answers a weather call of flow f
WeatherArrives(f) ==
    /\ loop = None
    /\ flow_pc[f] = "fetching"
    /\ flow_call[f].op # "fetch_recent"
    /\ CallEnd(f, "fetched", UpstreamResult(flow_call[f]))
    /\ UNCHANGED <<flow_call, loop, lifespan, cancel_requested, alerted>>
    /\ UNCHANGED <<alertVars, cacheVars, reportVars, fnVars, wsVars, rlVars>>

\* the awaited upstream request of flow f raises exc: the except clause logs
\* it and the call returns its fallback
UpstreamFails(f, exc) ==
    /\ loop = None
    /\ flow_pc[f] = "fetching"
    /\ f = "poller" => ~cancel_requested
    /\ IF IsException(exc)
       THEN CallEnd(f, "failed", Fallback(flow_call[f]))
       ELSE /\ flow_pc' = [flow_pc EXCEPT ![f] = "raised"]
            /\ fetch_last' = [flow |-> f, call |-> flow_call[f],
                              outcome |-> "failed", result |-> None,
                              raised |-> TRUE]
            /\ UNCHANGED <<eq_cache, weather_cache, wake_at>>
    /\ UNCHANGED <<flow_call, loop, lifespan, cancel_requested, alerted>>
    /\ UNCHANGED <<alertVars, cacheVars, reportVars, fnVars, wsVars, rlVars>>

\* lifespan after its yield: _bg_task.cancel(), then `await _bg_task`
Shutdown ==
    /\ loop = None
    /\ lifespan = "serving"
    /\ lifespan' = "awaiting"
    /\ cancel_requested' = TRUE
    /\ UNCHANGED <<flow_pc, flow_call, wake_at, loop, eq_cache, weather_cache,
                   fetch_last, alerted>>
    /\ UNCHANGED <<alertVars, cacheVars, reportVars, fnVars, wsVars, rlVars>>

\* the event loop resumes the polling task with CancelledError at the await
\* where it is suspended: inside the try of fetch_recent (and of the while
\* loop), or in the asyncio.sleep outside every try
CancelDelivered ==
    /\ loop = None
    /\ cancel_requested
    /\ cancel_requested' = FALSE
    /\ IF flow_pc["poller"] = "fetching" /\ IsException("CancelledError")
       THEN CallEnd("poller", "failed", Fallback(PollerCall))
       ELSE /\ flow_pc' = [flow_pc EXCEPT !["poller"] = "cancelled"]
            /\ UNCHANGED <<eq_cache, weather_cache, wake_at, fetch_last>>
    /\ UNCHANGED <<flow_call, loop, lifespan, alerted>>
    /\ UNCHANGED <<alertVars, cacheVars, reportVars, fnVars, wsVars, rlVars>>

\* `await _bg_task` raises CancelledError, which lifespan passes over; the
\* HTTP client is closed and the shutdown is complete
ShutdownCompletes ==
    /\ loop = None
    /\ lifespan = "awaiting"
    /\ flow_pc["poller"] = "cancelled"
    /\ lifespan' = "complete"
    /\ UNCHANGED <<flow_pc, flow_call, wake_at, loop, eq_cache, weather_cache,
                   fetch_last, cancel_requested, alerted>>
    /\ UNCHANGED <<alertVars, cacheVars, reportVars, fnVars, wsVars, rlVars>>

\* time.monotonic() advances while no for loop runs
TimePasses ==
    /\ loop = None
    /\ ClockTick

(* ---------------------------- specifications --------------------------- *)

\* the alert lifecycle
Next ==
    \/ \E ttl \in TTLs : CreateAlert("critical", ttl)
    \/ \E aid \in DismissIds : DismissAlert(aid)
    \/ \E sev \in {"any", "critical", "watch"}, limit \in {1, MaxAlerts} :
          GetActiveAlerts(sev, limit)
    \/ \E limit \in {1, MaxAlerts} : GetAlertHistory(limit)
    \/ Stats
    \/ Tick
    \/ \E b \in 1..MaxAlerts : BroadcastStart(b)

Spec == Init /\ [][Next]_vars

\* creation, subscription and the fan-out to the subscribers
NextBroadcast ==
    \/ alert_counter < MaxBroadcasts /\ CreateAlert("critical", TtlQuake)
    \/ \E cb \in Subscribers : Subscribe(cb)
    \/ \E cb \in Subscribers : Unsubscribe(cb)
    \/ \E b \in 1..MaxAlerts : BroadcastStart(b)
    \/ \E b \in 1..MaxAlerts, cb \in Subscribers, o \in Outcomes : BroadcastStep(b, cb, o)

SpecBroadcast == Init /\ [][NextBroadcast]_vars

\* the event loop runs every task that is ready to run
FairBroadcast ==
    /\ SpecBroadcast
    /\ \A b \in 1..MaxAlerts :
          /\ WF_vars(BroadcastStart(b))
          /\ WF_vars(\E cb \in Subscribers, o \in Outcomes : BroadcastStep(b, cb, o))

\* the earthquake poller's alert check: fetch_recent calls _check_alert for
\* one event after the other without an await in between, so no broadcast
\* starts between two calls
NextQuake ==
    \E e \in EventIds, m \in Magnitudes : CheckAlert(e, m)

SpecQuake == Init /\ [][NextQuake]_vars

\* one CacheService and its callers
NextCache ==
    \/ \E k \in CacheKeys : CacheGet(k)
    \/ \E k \in CacheKeys, v \in CacheValues : CacheSet(k, v)
    \/ \E k \in CacheKeys : CacheDelete(k)
    \/ CacheClear
    \/ CacheStats
    \/ ClockTick

SpecCache == Init /\ [][NextCache]_vars

\* the two cached report entry points
NextReports ==
    \/ \E a \in RiskCalls : AssessAllRisks(a)
    \/ \E a \in SoilCalls : Analyze(a)
    \/ ClockTick

SpecReports == Init /\ [][NextReports]_vars

\* the composite-risk aggregator on every combination of the grid
InitComposite ==
    /\ InitServices
    /\ fn_args \in CompositeInputs
    /\ fn_result = None
    /\ fn_previous = None
    /\ month = 1

NextComposite ==
    \/ CalculateCompositeRisk
    \/ \E h \in {"landslide", "flood", "liquefaction", "wildfire"}, v \in HazardGrid :
          CalculateWithRaised(h, v)

SpecComposite == InitComposite /\ [][NextComposite]_vars

\* the hazard models, called and called again with the same arguments while
\* the months pass
InitHazard ==
    /\ InitServices
    /\ fn_args \in HazardCalls
    /\ fn_result = None
    /\ fn_previous = None
    /\ month \in 1..12

NextHazard ==
    \/ Predict
    \/ MonthPasses

SpecHazard == InitHazard /\ [][NextHazard]_vars

\* fetch_recent called by the polling task and by a request: the two flows
\* interleave at the await of the upstream request
NextFetch ==
    \/ Poll
    \/ \E call \in FetchCalls : Request(call)
    \/ \E f \in Flows, feed \in QuakeFeeds : FeedArrives(f, feed)
    \/ LoopStep
    \/ LoopFinish
    \/ TimePasses

SpecFetch == Init /\ [][NextFetch]_vars

\* the polling task and the shutdown of lifespan
NextShutdown ==
    \/ Poll
    \/ \E feed \in QuakeFeeds : FeedArrives("poller", feed)
    \/ LoopStep
    \/ LoopFinish
    \/ \E exc \in UpstreamErrors : UpstreamFails("poller", exc)
    \/ Shutdown
    \/ CancelDelivered
    \/ ShutdownCompletes
    \/ TimePasses

SpecShutdown == Init /\ [][NextShutdown]_vars

\* the event loop runs every task that is ready to run
FairShutdown ==
    /\ SpecShutdown
    /\ WF_vars(CancelDelivered)
    /\ WF_vars(ShutdownCompletes)
    /\ WF_vars(LoopStep)
    /\ WF_vars(LoopFinish)

\* the upstream-backed calls of a request and of the polling task, with an
\* upstream that answers or fails
NextUpstream ==
    \/ Poll
    \/ \E call \in RequestCalls : Request(call)
    \/ \E f \in Flows, feed \in QuakeFeeds : FeedArrives(f, feed)
    \/ LoopStep
    \/ LoopFinish
    \/ \E f \in Flows : WeatherArrives(f)
    \/ \E f \in Flows, exc \in UpstreamErrors : UpstreamFails(f, exc)
    \/ TimePasses

SpecUpstream == Init /\ [][NextUpstream]_vars

\* the erosion model on every combination of the factor values
InitErosion ==
    /\ InitServices
    /\ fn_args \in ErosionFactors
    /\ fn_result = None
    /\ fn_previous = None
    /\ month = 1

NextErosion == Calculate

SpecErosion == InitErosion /\ [][NextErosion]_vars

\* the analytical soil model on every texture branch and lon_factor
InitSoil ==
    /\ InitServices
    /\ fn_args \in SoilInputs
    /\ fn_result = None
    /\ fn_previous = None
    /\ month = 1

NextSoil == PredictAnalytical

SpecSoil == InitSoil /\ [][NextSoil]_vars

\* repeated landslide predictions at one site
InitLandslide ==
    /\ InitServices
    /\ fn_args \in LandslideSites
    /\ fn_result = None
    /\ fn_previous = None
    /\ month = 1

NextLandslide ==
    \E slope \in Slopes, rainfall_mm \in Rainfalls :
        LandslideCall(slope, rainfall_mm)

SpecLandslide == InitLandslide /\ [][NextLandslide]_vars

\* polls of the upstream feed, event by event, over enough distinct ids to
\* trim the seen set
NextPolls ==
    \E e \in EventIds, m \in PollMagnitudes : PollEvent(e, m)

SpecPolls == Init /\ [][NextPolls]_vars

\* the WebSocket clients and the fan-out of an alert to them
NextWebsocket ==
    \/ \E ws \in WsIds : Connect(ws)
    \/ \E ws \in WsIds : Disconnect(ws)
    \/ BroadcastAlert
    \/ SendReturns

SpecWebsocket == Init /\ [][NextWebsocket]_vars

\* concurrent requests of the clients through the rate-limit middleware
NextRateLimit ==
    \/ \E ip \in ClientIps : Dispatch(ip)
    \/ \E ip \in ClientIps : CallNextReturns(ip)
    \/ WallClockTick

SpecRateLimit == Init /\ [][NextRateLimit]_vars

(* ------------------------------- claims -------------------------------- *)

ReadOps == {"get_active_alerts", "stats"}

\* C1 as stated: in every reachable state every alert that is flagged active
\* or held in the active index has now < expires_at.
C1_ActiveImpliesUnexpired ==
    \A a \in DOMAIN alertObj :
        (alertObj[a].is_active \/ a \in active_alerts) => now < alertObj[a].expires_at

\* C1 amended: the is_active flag is true exactly for the alerts of the active
\* index; a newly created alert has now < expires_at; and right after a read
\* (get_active_alerts, stats) at time t no active alert has expires_at < t.
\* Between reads an alert stays active past its expiry.
C1_ActiveAfterRead ==
    /\ \A a \in DOMAIN alertObj : alertObj[a].is_active <=> a \in active_alerts
    /\ active_alerts \subseteq DOMAIN alertObj
    /\ last.op = "create_alert" => now < alertObj[last.id].expires_at
    /\ last.op \in ReadOps =>
          \A a \in active_alerts : ~(alertObj[a].expires_at < now)

C1_Witness ==
    /\ last.op \in ReadOps
    /\ \E a \in active_alerts : alertObj[a].expires_at <= now
    /\ \E a \in DOMAIN alertObj :
          ~alertObj[a].is_active /\ alertObj[a].expires_at < now

\* C2: a read (get_active_alerts, stats) at time t returns only alerts that
\* were created, are not dismissed and have t < expires_at, and after it every
\* alert whose expiry has passed (expires_at <= t) is out of the active index
\* with is_active false.
C2_ReadReturnsUnexpired ==
    /\ last.op = "get_active_alerts" =>
          \A i \in 1..Len(last.ids) :
              /\ last.ids[i] \in DOMAIN alertObj
              /\ alertObj[last.ids[i]].is_active
              /\ now < alertObj[last.ids[i]].expires_at
    /\ last.op \in ReadOps =>
          \A a \in DOMAIN alertObj :
              alertObj[a].expires_at <= now =>
                  a \notin active_alerts /\ ~alertObj[a].is_active

\* a read at the very instant of expiry
C2_Witness ==
    /\ last.op = "get_active_alerts"
    /\ \E i \in 1..Len(last.ids) : alertObj[last.ids[i]].expires_at = now

\* C3: an alert that is no longer active (dismissed or expired) is never put
\* back into the active index and its is_active flag never becomes true again.
C3_TerminalStates ==
    [][\A a \in DOMAIN alertObj :
          (~alertObj[a].is_active \/ a \notin active_alerts) =>
              /\ a \in DOMAIN alertObj'
              /\ ~alertObj'[a].is_active
              /\ a \notin active_alerts']_vars

C3_Witness ==
    /\ last.op = "create_alert"
    /\ \E a \in DOMAIN alertObj :
          a < last.id /\ ~alertObj[a].is_active /\ a \notin active_alerts

\* C4: the history holds at most max_history alerts, newest first (strictly
\* decreasing creation order): it is exactly the last min(created, max_history)
\* alerts created, so an overflow evicts the oldest; get_alert_history returns
\* a prefix of it.
C4_HistoryBounded ==
    /\ Len(alerts) <= MaxHistory
    /\ Len(alerts) = Min(alert_counter, MaxHistory)
    /\ \A i \in 1..Len(alerts) : alerts[i] = alert_counter - i + 1
    /\ \A i, j \in 1..Len(alerts) : i < j => alerts[i] > alerts[j]
    /\ last.op = "get_alert_history" =>
          /\ Len(last.ids) <= Len(alerts)
          /\ \A i \in 1..Len(last.ids) : last.ids[i] = alerts[i]

C4_Witness ==
    /\ alert_counter > MaxHistory
    /\ Len(alerts) = MaxHistory
    /\ last.op = "get_alert_history"
    /\ Len(last.ids) >= 2
    /\ 1 \notin Range(alerts)

\* C5: a dismissal and an expiry pass leave the history as it is; the alert
\* dismissed or expired is out of the active index with is_active false and
\* otherwise unchanged; no alert that is not dismissed and not due changes.
C5_TerminalKeepsHistory ==
    [][/\ (last'.op = "dismiss_alert" /\ last'.ok) =>
             /\ alerts' = alerts
             /\ DOMAIN alertObj' = DOMAIN alertObj
             /\ last'.id \notin active_alerts'
             /\ alertObj'[last'.id] = [alertObj[last'.id] EXCEPT !.is_active = FALSE]
             /\ \A b \in DOMAIN alertObj \ {last'.id} :
                   /\ alertObj'[b] = alertObj[b]
                   /\ b \in active_alerts' <=> b \in active_alerts
       /\ last'.op \in ReadOps =>
             /\ alerts' = alerts
             /\ DOMAIN alertObj' = DOMAIN alertObj
             /\ \A b \in DOMAIN alertObj :
                   \/ /\ alertObj'[b] = alertObj[b]
                      /\ b \in active_alerts' <=> b \in active_alerts
                   \/ /\ b \in active_alerts
                      /\ alertObj[b].expires_at <= now
                      /\ b \notin active_alerts'
                      /\ alertObj'[b] = [alertObj[b] EXCEPT !.is_active = FALSE]]_vars

\* after an expiry pass: an expired alert is in the history with is_active
\* false while a later alert is still active
C5_Witness ==
    /\ last.op \in ReadOps
    /\ \E a \in Range(alerts), b \in active_alerts :
          /\ ~alertObj[a].is_active /\ alertObj[a].expires_at < now
          /\ a \notin active_alerts
          /\ alertObj[b].is_active

\* C6: dismiss_alert returns True exactly on an id of the active index; on any
\* other id it returns False and changes neither the active index, the alerts,
\* the history nor the id counter.
C6_DismissUnknown ==
    [][last'.op = "dismiss_alert" =>
          IF last'.id \in active_alerts
          THEN last'.ok
          ELSE /\ ~last'.ok
               /\ UNCHANGED <<alertObj, active_alerts, alerts, alert_counter>>]_vars

\* a second dismissal of an alert already dismissed or expired
C6_Witness ==
    /\ last.op = "dismiss_alert"
    /\ ~last.ok
    /\ last.id \in DOMAIN alertObj
    /\ ~alertObj[last.id].is_active

\* C7: a callback that raises does not end the fan-out: a broadcast that is
\* still running has everyone of its snapshot either invoked or still to do,
\* a finished one has invoked everyone of its snapshot; and the alert of every
\* broadcast was returned by create_alert and recorded in the active index and
\* the history.
C7_RaiseDoesNotAbort ==
    /\ \A b \in DOMAIN tasks :
          /\ tasks[b].raised \subseteq tasks[b].invoked
          /\ tasks[b].status = "running" =>
                /\ tasks[b].todo # {}
                /\ tasks[b].todo = tasks[b].snapshot \ tasks[b].invoked
          /\ tasks[b].status = "done" => tasks[b].invoked = tasks[b].snapshot
          /\ b \in DOMAIN alertObj
          /\ b \in active_alerts
          /\ b \in Range(alerts) \/ alert_counter - b >= MaxHistory
    /\ last.op = "create_alert" => last.ok /\ last.id \in DOMAIN tasks

C7_Witness ==
    \E b \in DOMAIN tasks :
        /\ tasks[b].status = "done"
        /\ tasks[b].raised # {}
        /\ tasks[b].raised # tasks[b].snapshot
        /\ tasks[b].invoked = Subscribers

\* C8: a subscriber whose callback raises in a broadcast is no longer in the
\* subscription set when that callback has ended.
C8_FailedSubscriberDropped ==
    [][\A b \in DOMAIN tasks, cb \in Subscribers :
          (b \in DOMAIN tasks' /\ cb \in tasks'[b].raised /\ cb \notin tasks[b].raised)
              => cb \notin subscribers']_vars

\* a callback that raised in one broadcast is invoked by a later one
C8_Witness ==
    \E b, c \in DOMAIN tasks, cb \in Subscribers :
        b < c /\ cb \in tasks[b].raised /\ tasks[b].status = "done"
              /\ cb \in tasks[c].invoked

\* C9: every subscriber of a broadcast's snapshot is eventually invoked, also
\* when the callback of another one never completes.
C9_SlowSubscriberIsolated ==
    \A b \in 1..MaxBroadcasts, cb \in Subscribers :
        [](( /\ b \in DOMAIN tasks
             /\ tasks[b].status \in {"running", "hung"}
             /\ cb \in tasks[b].snapshot)
           => <>(b \in DOMAIN tasks /\ cb \in tasks[b].invoked))

C9_Witness ==
    \E b \in DOMAIN tasks :
        tasks[b].status = "hung" /\ tasks[b].todo \ tasks[b].invoked # {}

\* the SeenKeep most recently inserted members of an insertion-ordered list
MostRecent(order, n) ==
    {order[i] : i \in (IF Len(order) > n THEN Len(order) - n + 1 ELSE 1)..Len(order)}

\* C10: the dedup set never holds more than SeenLimit identifiers when
\* _check_alert has returned, and a trim leaves exactly the SeenKeep most
\* recently inserted identifiers, the one just inserted among them.
C10_TrimKeepsMostRecent ==
    /\ Cardinality(seen_events) <= SeenLimit
    /\ (last.op = "check_alert" /\ last.outcome = "trimmed") =>
          /\ seen_events = MostRecent(seen_order, SeenKeep)
          /\ seen_order[Len(seen_order)] \in seen_events

C10_Witness ==
    /\ last.op = "check_alert"
    /\ last.outcome = "trimmed"
    /\ seen_order[Len(seen_order)] \notin seen_events

\* C11: for an event not yet seen, _check_alert creates exactly one alert, of
\* severity critical for magnitude >= 7.0, warning for 6.0 <= magnitude < 7.0,
\* watch for 5.0 <= magnitude < 6.0, advisory for 4.0 <= magnitude < 5.0, and
\* creates no alert for magnitude < 4.0.
C11_SeverityLadder ==
    [][\A e \in EventIds, m \in Magnitudes :
          (e \notin seen_events /\ CheckAlert(e, m)) =>
              IF m < 40
              THEN UNCHANGED <<alert_counter, alertObj, alerts, active_alerts, tasks>>
              ELSE /\ alert_counter' = alert_counter + 1
                   /\ DOMAIN alertObj' = DOMAIN alertObj \cup {alert_counter'}
                   /\ \A a \in DOMAIN alertObj : alertObj'[a] = alertObj[a]
                   /\ active_alerts' = active_alerts \cup {alert_counter'}
                   /\ alertObj'[alert_counter'].severity =
                         (CASE m >= 70 -> "critical"
                            [] m >= 60 /\ m < 70 -> "warning"
                            [] m >= 50 /\ m < 60 -> "watch"
                            [] m >= 40 /\ m < 50 -> "advisory")]_vars

\* one alert of each severity of the ladder has been created, and an event
\* below the threshold has been recorded without an alert
C11_Witness ==
    /\ last.op = "check_alert"
    /\ last.ok
    /\ alert_counter = 2
    /\ Cardinality(seen_events) > alert_counter
    /\ alertObj[1].severity = "warning"
    /\ alertObj[2].severity = "advisory"

\* C12: right after set(k, v), with no time elapsing and no other operation in
\* between, get(k) returns v, whatever the cache held before, also when it was
\* at maxsize.
C12_SetThenGet ==
    cache_last.op = "set" => GetValue(cache_last.key) = cache_last.value

\* a set of a new key into a cache that was full
C12_Witness ==
    /\ cache_last.op = "set"
    /\ cache_last.value = Str("v1")
    /\ cache_last.evicted # {}
    /\ Cardinality(DOMAIN cache_data) = MaxSize
    /\ clock > 0

\* C13: an entry written by set(k, v) at time t and not set again is absent for
\* every get(k) at a time >= t + ttl: the get returns None and counts a miss.
C13_ExpiredIsAbsent ==
    [][\A k \in DOMAIN cache_data :
          ( /\ cache_last'.op = "get"
            /\ cache_last'.key = k
            /\ clock >= cache_data[k].set_at + CacheTtl )
          => /\ cache_last'.value = None
             /\ misses' = misses + 1
             /\ hits' = hits]_vars

\* a get at the very instant t + ttl of an entry that holds a value
C13_Witness ==
    /\ cache_last.op = "get"
    /\ cache_last.key \in DOMAIN cache_data
    /\ cache_data[cache_last.key].value = Str("v1")
    /\ clock = cache_data[cache_last.key].set_at + CacheTtl
    /\ cache_last.value = None
    /\ misses = 1

\* C14: the cache never holds more than maxsize entries; a set of a new key
\* into a cache whose unexpired entries fill it evicts exactly the unexpired
\* entry least recently used or set, any other set evicts no unexpired entry;
\* a get that returns an entry and a set make their key the most recently
\* used and leave the order of the others as it was.
C14_BoundedLRU ==
    [][LET live == LiveKeys
           k == cache_last'.key
       IN  /\ Cardinality(DOMAIN cache_data') <= MaxSize
           /\ Range(cache_links') = DOMAIN cache_data'
           /\ Len(cache_links') = Cardinality(DOMAIN cache_data')
           /\ cache_last'.op = "set" =>
                 /\ IF k \notin live /\ Cardinality(live) + 1 > MaxSize
                    THEN \E e \in live :
                            /\ \A o \in live \ {e} : Pos(cache_links, e) < Pos(cache_links, o)
                            /\ cache_last'.evicted = {e}
                            /\ DOMAIN cache_data' = (live \ {e}) \cup {k}
                    ELSE /\ cache_last'.evicted = {}
                         /\ DOMAIN cache_data' = live \cup {k}
                 /\ cache_links'[Len(cache_links')] = k
                 /\ \A a, b \in DOMAIN cache_data' \ {k} :
                       Pos(cache_links', a) < Pos(cache_links', b)
                          <=> Pos(cache_links, a) < Pos(cache_links, b)
           /\ (cache_last'.op = "get" /\ k \in live) =>
                 /\ cache_links'[Len(cache_links')] = k
                 /\ \A a, b \in DOMAIN cache_data' \ {k} :
                       Pos(cache_links', a) < Pos(cache_links', b)
                          <=> Pos(cache_links, a) < Pos(cache_links, b)
           /\ cache_last'.op \in {"get", "delete", "stats", "tick"} =>
                 DOMAIN cache_data' \subseteq DOMAIN cache_data]_vars

\* a full cache, one of its entries read, then a set of a third key: the entry
\* that was not read is evicted
C14_Witness ==
    /\ cache_last.op = "set"
    /\ cache_last.key = "k3"
    /\ cache_last.evicted = {"k2"}
    /\ DOMAIN cache_data = {"k1", "k3"}
    /\ hits = 1
    /\ misses = 0
    /\ clock = 0

Abs(x) == IF x < 0 THEN 0 - x ELSE x

\* C15 as stated: hits and misses never decrease; a get adds one to exactly
\* one of them, to hits exactly when it returns a value; and the hit_rate that
\* stats reports equals hits / max(1, hits + misses).  (hit_rate of the model
\* is ten times the number reported.)
C15_CountersAndRatio ==
    [][/\ hits' >= hits
       /\ misses' >= misses
       /\ cache_last'.op = "get" =>
             IF cache_last'.value # None
             THEN hits' = hits + 1 /\ misses' = misses
             ELSE hits' = hits /\ misses' = misses + 1
       /\ cache_last'.op = "stats" =>
             cache_last'.hit_rate * Max(1, hits + misses) = 10 * hits]_vars

\* C15 amended: as above, but the hit_rate reported is the percentage
\* 100 * hits / max(1, hits + misses) rounded to one decimal: a multiple of
\* 0.1 in [0, 100] no further than 0.05 from the percentage.
C15_CountersAndPercent ==
    [][/\ hits' >= hits
       /\ misses' >= misses
       /\ cache_last'.op = "get" =>
             IF cache_last'.value # None
             THEN hits' = hits + 1 /\ misses' = misses
             ELSE hits' = hits /\ misses' = misses + 1
       /\ cache_last'.op # "get" => hits' = hits /\ misses' = misses
       /\ cache_last'.op = "stats" =>
             /\ cache_last'.hit_rate \in 0..1000
             /\ 2 * Abs(cache_last'.hit_rate * Max(1, hits + misses) - 1000 * hits)
                   <= Max(1, hits + misses)]_vars

\* stats after one hit and two misses: 33.3 is reported
C15_Witness ==
    /\ cache_last.op = "stats"
    /\ hits = 1
    /\ misses = 2
    /\ cache_last.hit_rate = 333

\* C16: a report returned from the cache was computed for the same rounded
\* latitude and longitude and for the same parameter values (elevation, slope,
\* soil type, sand and clay percentages, land cover, NDVI) as the call that
\* receives it.
C16_CachedReportMatchesCall ==
    report_last.cached =>
        LET a == report_last.args
            f == report_last.report.computed_for
        IN  /\ Round3(f.latitude) = Round3(a.latitude)
            /\ Round3(f.longitude) = Round3(a.longitude)
            /\ f.elevation = a.elevation
            /\ f.land_cover = a.land_cover
            /\ report_last.op = "assess_all_risks" =>
                  /\ f.slope = a.slope
                  /\ f.soil_type = a.soil_type
                  /\ f.sand_pct = a.sand_pct
                  /\ f.clay_pct = a.clay_pct
                  /\ f.ndvi = a.ndvi

\* a risk report computed for a slope of 5 degrees is returned to a call with
\* a slope of 40 degrees at the same rounded place
C16_Witness ==
    /\ report_last.op = "assess_all_risks"
    /\ report_last.cached
    /\ report_last.args.slope = 40
    /\ report_last.report.computed_for.slope = 5

\* C17: for four hazard inputs in [0, 1] the composite score is an integer in
\* [0, 100], and it does not decrease when one input is raised and the other
\* three stay as they are.
C17_CompositeMonotone ==
    [][/\ fn_result' # None => fn_result'.score \in 0..100
       /\ (fn_result # None /\ fn_result' # None) =>
             fn_result'.score >= fn_result.score]_vars

\* the score of landslide 1.0, flood 0.667, liquefaction 0.004, wildfire 0 is
\* 80 (composite * 100 = 80.0336)
C17_Witness ==
    /\ fn_result # None
    /\ fn_args = [landslide |-> 1000, flood |-> 667, liquefaction |-> 4, wildfire |-> 0]
    /\ fn_result.score = 80

\* C18: the landslide, flood and fire models return a probability in
\* [0, 0.99] and the risk_level whose band of the shared table (Very Low below
\* 0.10, Low below 0.25, Moderate below 0.45, High below 0.65, Very High below
\* 0.80, Extreme from 0.80) contains the returned 3-decimal probability; the
\* liquefaction model returns the class of the 5-band table that contains the
\* returned susceptibility_score.
C18_LevelIsBandOfReturned ==
    fn_result # None =>
        IF fn_args.model = "liquefaction"
        THEN fn_result.susceptibility =
                 ClassifySusceptibility(1000000 * fn_result.susceptibility_score)
        ELSE /\ fn_result.probability \in 0..990
             /\ fn_result.risk_level = ClassifyRisk(1000000 * fn_result.probability)

\* landslide.predict(latitude=10, longitude=10, slope=35.1): the weighted sum
\* is 0.4496875, returned as probability 0.45 with the risk_level "Moderate"
C18_Witness ==
    /\ fn_result # None
    /\ fn_args.model = "landslide"
    /\ fn_args.latitude = 10 /\ fn_args.longitude = 10
    /\ fn_args.scores = [slope |-> 73500, rainfall |-> 50000, soil |-> 41625,
                         vegetation |-> 17500, lithology |-> 60000,
                         curvature |-> 30000, fault |-> 10000, river |-> 10000,
                         elevation |-> 20000, aspect |-> 30000]
    /\ fn_result.probability = 450
    /\ fn_result.risk_level = "Moderate"

\* C19: the contributing-factor list of the landslide, flood and fire models
\* holds at most 3 tags (at most 2 for fire); every listed factor has a score
\* above 0.3; the list is in non-increasing order of score, equal scores in
\* the declaration order of the weighting table; and no unlisted factor with a
\* score above 0.3 outranks a listed one unless the list has its maximum
\* length.
C19_ContributingFactors ==
    (fn_result # None /\ fn_args.model \in {"landslide", "flood", "fire"}) =>
        LET order == CASE fn_args.model = "landslide" -> LandslideOrder
                       [] fn_args.model = "flood" -> FloodOrder
                       [] fn_args.model = "fire" -> FireOrder
            names == CASE fn_args.model = "landslide" -> LandslideNames
                       [] fn_args.model = "flood" -> FloodNames
                       [] fn_args.model = "fire" -> FireNames
            most == IF fn_args.model = "fire" THEN 2 ELSE 3
            listed == fn_result.contributing_factors
            score == fn_args.scores
            at(i) == Pos(order, CHOOSE k \in Range(order) : names[k] = listed[i])
            unlisted == {j \in 1..Len(order) : names[order[j]] \notin Range(listed)}
        IN  /\ Len(listed) <= most
            /\ \A i \in 1..Len(listed) :
                  /\ \E k \in Range(order) : names[k] = listed[i]
                  /\ score[order[at(i)]] > 30000
            /\ \A i, j \in 1..Len(listed) :
                  i < j =>
                     \/ score[order[at(i)]] > score[order[at(j)]]
                     \/ /\ score[order[at(i)]] = score[order[at(j)]]
                        /\ at(i) < at(j)
            /\ \A u \in unlisted :
                  (/\ score[order[u]] > 30000
                   /\ \E i \in 1..Len(listed) :
                         \/ score[order[u]] > score[order[at(i)]]
                         \/ /\ score[order[u]] = score[order[at(i)]]
                            /\ u < at(i))
                  => Len(listed) = most

\* the fire model with all four scores at 0.4: the first two of the weighting
\* table are listed, in its order, and two factors above 0.3 are left out
C19_Witness ==
    /\ fn_result # None
    /\ fn_args.model = "fire"
    /\ fn_args.scores = [fuel_moisture |-> 40000, weather |-> 40000,
                         terrain |-> 40000, fuel_type |-> 40000]
    /\ fn_result.contributing_factors = <<"dry_vegetation", "hot_dry_windy">>

\* C20: the hazard models are pure functions of their arguments: two calls
\* with the same arguments return the same result, whatever the wall-clock
\* time of the calls.
C20_SameArgumentsSameResult ==
    (fn_previous # None /\ fn_result # None) => fn_result = fn_previous

\* fire.predict at latitude 35 with all four scores at 0.4 returned 0.48 in a
\* month from June to October and returns 0.24 for the same arguments in
\* January
C20_Witness ==
    /\ fn_args.model = "fire"
    /\ fn_args.latitude = 35
    /\ fn_args.scores = [fuel_moisture |-> 40000, weather |-> 40000,
                         terrain |-> 40000, fuel_type |-> 40000]
    /\ month = 1
    /\ fn_previous # None /\ fn_previous.probability = 480
    /\ fn_previous.risk_level = "High"
    /\ fn_result # None /\ fn_result.probability = 240
    /\ fn_result.risk_level = "Low"

\* C21: across the interleavings of the create_alert calls of the polling task
\* and of a concurrent request, every alert gets an id of its own, the ids
\* increase strictly in the order of creation, and no two alerts of the
\* history or of the active index share an id.
C21_DistinctIncreasingIds ==
    /\ [](\A i, j \in 1..Len(alerts) : i < j => alerts[i] > alerts[j])
    /\ [](active_alerts \subseteq DOMAIN alertObj)
    /\ [][alerts' # alerts =>
            LET new == Head(alerts')
            IN  /\ new \notin DOMAIN alertObj
                /\ \A a \in DOMAIN alertObj :
                      /\ a < new
                      /\ alertObj'[a] = alertObj[a]
                      /\ alertObj[a].created_at <= alertObj'[new].created_at
                /\ DOMAIN alertObj' = DOMAIN alertObj \cup {new}
                /\ active_alerts' = active_alerts \cup {new}]_vars

\* both flows were suspended in the upstream request at once: the request's
\* fetch_recent has returned event 1 (alert 1) and the polling task, whose
\* cache get came before the request's cache set, is in its loop and has
\* created alert 2 for event 2
C21_Witness ==
    /\ clock = 0
    /\ flow_call["request"] = PollerCall
    /\ fetch_last.flow = "request"
    /\ fetch_last.outcome = "fetched"
    /\ fetch_last.result = List(<<[event_id |-> 1, magnitude |-> 50]>>)
    /\ loop # None
    /\ loop.flow = "poller"
    /\ loop.events = <<[event_id |-> 2, magnitude |-> 50]>>
    /\ loop.todo = <<>>
    /\ alerts = <<2, 1>>
    /\ active_alerts = {1, 2}

\* C22: when the shutdown cancels the polling task, suspended in the upstream
\* request or in the sleep between two polls, the task ends, no poll starts
\* after the cancellation, and the shutdown of lifespan runs to its end.
C22_CleanCancellation ==
    /\ [][lifespan # "serving" => ~Poll]_vars
    /\ [][flow_pc["poller"] = "cancelled" => flow_pc'["poller"] = "cancelled"]_vars
    /\ [](lifespan = "complete" => flow_pc["poller"] = "cancelled")
    /\ (lifespan = "awaiting") ~> (lifespan = "complete")

\* the shutdown is complete and the task was cancelled inside its first
\* upstream request: one cache get was made and no call ever returned
C22_Witness ==
    /\ lifespan = "complete"
    /\ flow_pc["poller"] = "cancelled"
    /\ eq_cache.misses = 1
    /\ eq_cache.hits = 0
    /\ fetch_last = NoFetch

C24_ErosionBand ==
    fn_result # None =>
        LET A == fn_result.soil_loss_tons_ha_yr
            holds == {b \in Range(RiskThresholds) :
                         b.low <= A /\ (b.high = -1 \/ A < b.high)}
        IN  /\ A >= 0
            /\ Cardinality(holds) = 1
            /\ fn_result.risk_level =
                  (IF A < 200 THEN "Very Low"
                   ELSE IF A < 500 THEN "Low"
                   ELSE IF A < 1000 THEN "Moderate"
                   ELSE IF A < 2000 THEN "High"
                   ELSE IF A < 5000 THEN "Very High"
                   ELSE "Severe")

\* R 161, K 0.031, LS 0.4, C 1, P 1: the product 1.9964 is returned as 2.0
\* with the level "Low"
C24_Witness ==
    /\ fn_result # None
    /\ fn_args = [R |-> 161, K |-> 31, LS |-> 4, C |-> 100, P |-> 10]
    /\ fn_result.soil_loss_tons_ha_yr = 200
    /\ fn_result.risk_level = "Low"

\* C25: for every elevation, latitude and precipitation band and every
\* lon_factor in [-5, 5], the sand_pct, silt_pct and clay_pct returned by the
\* analytical soil estimator are each non-negative and sum to 100 within a
\* tolerance of 1.0.
C25_TextureSumsTo100 ==
    fn_result # None =>
        LET sum == fn_result.sand_pct + fn_result.silt_pct + fn_result.clay_pct
        IN  /\ fn_result.sand_pct >= 0
            /\ fn_result.silt_pct >= 0
            /\ fn_result.clay_pct >= 0
            /\ sum >= 1000 - 10
            /\ sum <= 1000 + 10

\* a dry site at lon_factor 4.93: the three values rounded to one decimal do
\* not sum to 100 and are rescaled before they are returned
C25_Witness ==
    /\ fn_result # None
    /\ fn_args.lon_factor = 493
    /\ fn_args.mean_precip = 200
    /\ fn_result.rounded # 1000
    /\ fn_result.sand_pct + fn_result.silt_pct + fn_result.clay_pct = 1000

\* C26: with all other inputs held equal, the landslide probability does not
\* decrease when slope or rainfall_mm increases, it is strictly greater at
\* slope 45 than at slope 3 and strictly greater at rainfall 400 mm than at
\* rainfall 10 mm, also inside a regional box where the result is limited to
\* 0.99.
C26_Monotone ==
    (fn_previous # None /\ fn_result # None) =>
        /\ (fn_previous.slope <= fn_result.slope
            /\ fn_previous.rainfall_mm <= fn_result.rainfall_mm)
               => fn_previous.out.probability <= fn_result.out.probability
        /\ (fn_previous.slope >= fn_result.slope
            /\ fn_previous.rainfall_mm >= fn_result.rainfall_mm)
               => fn_previous.out.probability >= fn_result.out.probability
        /\ (fn_previous.slope = 3 /\ fn_result.slope = 45
            /\ fn_previous.rainfall_mm = fn_result.rainfall_mm)
               => fn_previous.out.probability < fn_result.out.probability
        /\ (fn_previous.rainfall_mm = 10 /\ fn_result.rainfall_mm = 400
            /\ fn_previous.slope = fn_result.slope)
               => fn_previous.out.probability < fn_result.out.probability

\* inside the Himalayan box with every other factor at its greatest value and
\* 400 mm of rain: the prediction at slope 45 is limited to 0.99, the one at
\* slope 3 is below it
C26_Witness ==
    /\ fn_previous # None
    /\ fn_result # None
    /\ LandslideRegion(fn_args.latitude, fn_args.longitude) = 120
    /\ fn_args.scores.soil = 92000
    /\ fn_previous.slope = 3
    /\ fn_result.slope = 45
    /\ fn_previous.rainfall_mm = 400
    /\ fn_result.rainfall_mm = 400
    /\ fn_result.out.probability = 990
    /\ fn_previous.out.probability < 990

\* C27: over any sequence of polls, also ones that return the same events
\* again and ones that insert more distinct ids than the seen set keeps, each
\* upstream event_id causes at most one alert.
C27_AtMostOneAlertPerEvent ==
    \A e \in EventIds : alerted[e] <= 1

\* an event that alerted, was dropped from the seen set by a trim and alerted
\* again when a later poll returned it
C27_Witness ==
    \E e \in EventIds :
        /\ alerted[e] = 2
        /\ last.op = "check_alert"
        /\ last.ok
        /\ e \in seen_events
        /\ Len(alerts) >= 2

\* C28: after any sequence of operations, also after more than max_history
\* creations of long-lived alerts, every alert of the active index is in the
\* history buffer, so stats reports active_alerts <= total_alerts.
C28_ActiveWithinHistory ==
    /\ active_alerts \subseteq Range(alerts)
    /\ last.op = "stats" => last.nactive <= last.total

\* stats after one more unexpired alert than the history holds: the oldest is
\* still in the active index and no longer in the history
C28_Witness ==
    /\ last.op = "stats"
    /\ alert_counter > MaxHistory
    /\ last.total = MaxHistory
    /\ last.nactive > MaxHistory
    /\ 1 \in active_alerts
    /\ 1 \notin Range(alerts)

\* C29: when the set of connections changes while a broadcast is suspended in
\* a send, every client that stays connected for the whole broadcast receives
\* the alert message exactly once.
C29_StayedReceivesOnce ==
    ws_done # None => \A ws \in ws_done.stayed : ws_received[ws] = 1

\* a client connected while the broadcast was suspended in its first send: the
\* iterator raised RuntimeError and a client that stayed connected got nothing
C29_Witness ==
    /\ ws_done # None
    /\ ws_done.outcome = "RuntimeError"
    /\ \E ws \in ws_done.stayed : ws_received[ws] = 0
    /\ \E ws \in ws_done.stayed : ws_received[ws] = 1

\* C30: for each client IP and any interleaving of concurrent requests, at
\* most requests_per_minute requests are passed to the application within any
\* 60-second window; a request answered with 429 is not recorded and consumes
\* no quota; and the X-RateLimit-Remaining that is sent is never negative.
C30_RateLimited ==
    /\ [](\A ip \in ClientIps, a \in 0..MaxT :
             Cardinality({i \in 1..Len(rl_passed[ip]) :
                             a <= rl_passed[ip][i] /\ rl_passed[ip][i] < a + Window})
                 <= RequestsPerMinute)
    /\ [](rl_last.status_code = 200 => rl_last.remaining >= 0)
    /\ [][\A ip \in ClientIps :
             (Dispatch(ip) /\ rl_last'.status_code = 429) =>
                 /\ rl_passed' = rl_passed
                 /\ rl_inflight' = rl_inflight
                 /\ rl_clients'[ip] = Recent(rl_clients[ip], rl_now)]_vars

\* a client whose earlier requests have left the window is at its limit again,
\* with all the requests of the window still inside call_next, and is refused
C30_Witness ==
    \E ip \in ClientIps :
        /\ rl_last = [client_ip |-> ip, status_code |-> 429, remaining |-> 0]
        /\ Len(rl_passed[ip]) > RequestsPerMinute
        /\ Len(rl_clients[ip]) = RequestsPerMinute
        /\ rl_inflight[ip] = RequestsPerMinute

=============================================================================
